---- MODULE Spec2Model ----
(***************************************************************************)
(* Model of the FSNB XML -> Markdown converter (saztonov/xmlFSNB):          *)
(* the two streaming parsers of app/workers/parsers.py and the Markdown    *)
(* exporters of app/workers/exporters.py.                                  *)
(*                                                                         *)
(* Text is modelled as a sequence of atoms: an atom is either one of the   *)
(* characters "#", "|", "\\", " ", or an opaque run of characters that     *)
(* contains no "#", "|" or "\\".  The Cyrillic labels of the catalogs are   *)
(* transliterated (Kniga, Chast, Razdel, Gruppa, Sbornik, Otdel,           *)
(* Podrazdel, Tablica), because module strings are ASCII.                  *)
(***************************************************************************)
EXTENDS Integers, Sequences, FiniteSets, TLC

VARIABLES
    doc,                    \* the bytes of the source file, as XML tokens
    readable,               \* whether open(file_path, "rb").read() succeeds
    worker,                 \* which parser class runs: "fsbc" or "gesn"
    pc,                     \* position of the parser's run(): init, loop, done, failed
    pos,                    \* index of the next token iterparse will report
    xml_open,               \* expat's stack of open element tags
    xml_root_done,          \* expat has seen the document element close
    total_resources,        \* pre-scan count (total_works in the GESN parser)
    metadata,
    records,
    hierarchy_stack,        \* section_stack in the GESN parser
    current_category_type,
    current_name_group_begin,
    parsed_count,
    error_count,
    signals,                \* notifications emitted by the parser, in order
    delivered,              \* arguments of the finished notification(s)
    ui,                     \* what the window stored from the last finished parse
    epc,                    \* position of the exporter's run(): idle, start, loop (gstart,
                            \* gloop in the GESN exporter), done, failed
    exp,                    \* the exporter's constructor arguments (self.*)
    lines,                  \* the exporter's list of lines
    cur,                    \* current_cat, current_book, ... trackers
    i,                      \* loop index of the exporter
    exp_signals,            \* notifications emitted by the exporter, in order
    exp_totals,             \* total_resources, total_content_items of the GESN exporter
    out_file,               \* content of the destination file (<<>> = absent)
    parked                  \* the parser instances that are not the one taking steps

parser_vars == <<pc, pos, xml_open, xml_root_done, total_resources, metadata,
                 records, hierarchy_stack, current_category_type,
                 current_name_group_begin, parsed_count, error_count,
                 signals, delivered>>
export_vars == <<epc, exp, lines, cur, i, exp_signals, exp_totals, out_file>>
input_vars  == <<doc, readable, worker, parked>>
vars == <<input_vars, parser_vars, ui, export_vars>>

(***************************************************************************)
(* Bounds of the model.                                                    *)
(***************************************************************************)
MaxSections == 2    \* Section elements in a document of the nesting family
MaxLeaves   == 1    \* leaf elements in a document of the nesting family
MaxFlat     == 2    \* elements in a document of the flat (leaf variants) family
MaxRecs     == 2    \* records handed to an exporter that is run on its own
MaxName     == 3    \* characters of a name drawn for the escaping of pipes
MaxRuns     == 2    \* runs of a parser on the same file
MaxRerunDoc == 6    \* tokens of a document that is parsed more than once
MaxKids     == 3    \* child elements of a Work whose children are drawn
MaxLoads    == 2    \* files loaded in one tab of the window
MaxExports  == 1    \* exports started in one tab of the window

(***************************************************************************)
(* Program constants.                                                      *)
(***************************************************************************)
ProgressEvery    == 500     \* parsers.py:59
GesnProgressEvery == 200    \* parsers.py:179
ExpProgressEvery == 1000    \* exporters.py:81
GesnExpProgressEvery == 500 \* exporters.py:207

(***************************************************************************)
(* Text.                                                                   *)
(***************************************************************************)
E == <<>>                       \* the empty string ""
T(a) == <<a>>                   \* a string of one opaque atom

DigitChar == <<"0", "1", "2", "3", "4", "5", "6", "7", "8", "9">>

RECURSIVE Dec(_)
\* str(n) / f"{n}" for a non-negative integer
Dec(n) == IF n < 10 THEN <<DigitChar[n + 1]>>
          ELSE Dec(n \div 10) \o <<DigitChar[(n % 10) + 1]>>

RECURSIVE Flatten(_)
Flatten(ss) == IF ss = <<>> THEN <<>> ELSE Head(ss) \o Flatten(Tail(ss))

\* number of elements of the sequence s that satisfy the predicate P
Count(s, P(_)) == Len(SelectSeq(s, P))

Last(s) == s[Len(s)]
Front(s) == SubSeq(s, 1, Len(s) - 1)

(***************************************************************************)
(* XML tokens.  A "start"/"end" token is one start/end event of iterparse; *)
(* a "leaf" token is a complete element (start tag, children, end tag)     *)
(* whose start event no handler acts on, with its children in kids; "bad"  *)
(* is a place where the bytes are not well-formed XML.  sp tells whether   *)
(* the element name of the start tag is followed by a space character in   *)
(* the bytes ("<Resource " as opposed to "<Resource>" or "<Resource\n").   *)
(***************************************************************************)
NoAttrs == [n \in {} |-> E]

Start(tag, a) == [k |-> "start", tag |-> tag, a |-> a, kids |-> <<>>, text |-> E, sp |-> TRUE]
End(tag)      == [k |-> "end", tag |-> tag, a |-> NoAttrs, kids |-> <<>>, text |-> E, sp |-> FALSE]
Leaf(tag, a, kids, text, sp) ==
    [k |-> "leaf", tag |-> tag, a |-> a, kids |-> kids, text |-> text, sp |-> sp]
Bad           == [k |-> "bad", tag |-> "", a |-> NoAttrs, kids |-> <<>>, text |-> E, sp |-> FALSE]

\* elem.get(name, "")
Get(a, name) == IF name \in DOMAIN a THEN a[name] ELSE E

\* a child element of a leaf token, with its own children
El(tag, a, kids) == [tag |-> tag, a |-> a, kids |-> kids]

\* elem.findall("tag"): the children with that tag, in document order
FindAll(kids, tag) == SelectSeq(kids, LAMBDA e : e.tag = tag)

\* elem.find("tag"): the first child with that tag, or None (a sequence of
\* length 0 or 1)
Find(kids, tag) ==
    IF FindAll(kids, tag) = <<>> THEN <<>> ELSE <<Head(FindAll(kids, tag))>>

RECURSIVE Descendants(_)
\* the descendants of an element with children kids, in document order
Descendants(kids) ==
    Flatten([j \in 1..Len(kids) |-> <<kids[j]>> \o Descendants(kids[j].kids)])

\* elem.find(".//tag"): the first descendant with that tag, or None
FindDeep(kids, tag) == Find(Descendants(kids), tag)

\* raw.count(b"<tag "): occurrences of the opening marker followed by a space
RawCount(d, tag) ==
    Count(d, LAMBDA t : t.k \in {"start", "leaf"} /\ t.tag = tag /\ t.sp)

(***************************************************************************)
(* Source documents.  A document is drawn as a shape, a sequence of short  *)
(* names of tokens, and decoded into its tokens.  The shapes come in three *)
(* families inside a document element: nested containers with leaves,      *)
(* flat runs of leaves in all their variants, and damaged copies (cut      *)
(* short, with bytes that are not XML, with a close tag that does not      *)
(* match, with text after the document element).  Decoding numbers every   *)
(* Section and every leaf by its position, so that they can be told apart. *)
(***************************************************************************)
RootTag == "base"

WrapShape(body) == <<"<base">> \o body \o <<"/base">>

\* the name of the close tag of a container
CloseOf(c) == CASE c \in {"Materialy", "Oborudovanie", "Category"} -> "/ResourceCategory"
                [] c = "NameGroup" -> "/NameGroup"
                [] OTHER -> "/Section"

RECURSIVE Forest(_, _, _, _)
\* the well-nested shapes with at most k containers (opened by a name of
\* conts) and at most m leaves (names of leaves)
Forest(conts, leaves, k, m) ==
    {<<>>}
    \cup (IF m = 0 THEN {}
          ELSE {<<l>> \o f : l \in leaves, f \in Forest(conts, leaves, k, m - 1)})
    \cup (IF k = 0 THEN {}
          ELSE UNION {UNION {{<<c>> \o a \o <<CloseOf(c)>> \o b :
                                c \in conts,
                                a \in Forest(conts, leaves, k1, m1),
                                b \in Forest(conts, leaves, k - 1 - k1, m - m1)} :
                             m1 \in 0..m} :
                      k1 \in 0..(k - 1)})

RECURSIVE SeqsUpTo(_, _)
\* the sequences over S of length at most n
SeqsUpTo(S, n) ==
    IF n = 0 THEN {<<>>}
    ELSE LET shorter == SeqsUpTo(S, n - 1)
         IN  shorter \cup {Append(s, t) : s \in shorter, t \in S}

\* damaged copies of a shape
Damaged(sh) ==
    {SubSeq(sh, 1, n) : n \in 0..(Len(sh) - 1)}
    \cup {SubSeq(sh, 1, n) \o <<"bad">> \o SubSeq(sh, n + 1, Len(sh)) : n \in 0..Len(sh)}
    \cup {[sh EXCEPT ![n] = "/Section"] :
              n \in {m \in 1..Len(sh) : sh[m] \in {"/ResourceCategory", "/NameGroup", "/base"}}}
    \cup {sh \o <<"<base", "/base">>}

\* the position number n, as text
Num(n) == DigitChar[n + 1]

(***************************************************************************)
(* FSBC documents.                                                         *)
(***************************************************************************)
\* the four recognized type labels (parsers.py:80-87) and an unrecognized one
FsbcSectionTypes == {"Kniga", "Chast", "Razdel", "Gruppa", "Prochee"}
CategoryTypes == {"Materialy", "Oborudovanie"}

PriceEl(cost, opt) == El("Price", [Cost |-> cost, OptCost |-> opt], <<>>)

\* the variants of a Resource element: whether it has a Code, a Name (one
\* with a pipe character), which Price descendants, and whether its start
\* tag is written "<Resource "
FsbcVariants ==
    {[id |-> "R",      code |-> TRUE,  name |-> TRUE,  prices |-> 1, sp |-> TRUE],
     [id |-> "R.tab",  code |-> TRUE,  name |-> TRUE,  prices |-> 1, sp |-> FALSE],
     [id |-> "R.2",    code |-> TRUE,  name |-> TRUE,  prices |-> 2, sp |-> TRUE],
     [id |-> "R.0",    code |-> TRUE,  name |-> TRUE,  prices |-> 0, sp |-> TRUE],
     [id |-> "R.n",    code |-> TRUE,  name |-> FALSE, prices |-> 1, sp |-> TRUE],
     [id |-> "R.n0",   code |-> TRUE,  name |-> FALSE, prices |-> 0, sp |-> TRUE],
     [id |-> "R.c",    code |-> FALSE, name |-> TRUE,  prices |-> 1, sp |-> TRUE],
     [id |-> "R.c0",   code |-> FALSE, name |-> TRUE,  prices |-> 0, sp |-> TRUE],
     [id |-> "R.cn",   code |-> FALSE, name |-> FALSE, prices |-> 2, sp |-> TRUE],
     [id |-> "R.cn0",  code |-> FALSE, name |-> FALSE, prices |-> 0, sp |-> FALSE]}
FsbcVariantIds == {v.id : v \in FsbcVariants}
FsbcMetaIds == {"Number", "Number.empty", "Date"}

FsbcResource(v, n) ==
    Leaf("Resource",
         [Code |-> IF v.code THEN <<"R", Num(n)>> ELSE E,
          Name |-> IF v.name THEN <<"A", "|", "B", Num(n)>> ELSE E,
          MeasureUnit |-> T("kg")],
         CASE v.prices = 0 -> <<El("Prices", NoAttrs, <<>>)>>
           [] v.prices = 1 -> <<PriceEl(<<"10", Num(n)>>, E)>>
           [] v.prices = 2 -> <<El("Note", NoAttrs, <<>>),
                                El("Prices", NoAttrs,
                                   <<PriceEl(<<"20", Num(n)>>, <<"19", Num(n)>>),
                                     PriceEl(T("1"), T("1"))>>)>>,
         E, v.sp)

\* the token that the name sh[j] of a shape stands for
FsbcToken(sh, j) ==
    LET x == sh[j]
        n == Count(SubSeq(sh, 1, j), LAMBDA y : (y \in FsbcSectionTypes) = (x \in FsbcSectionTypes)
                                               /\ (y \in FsbcVariantIds) = (x \in FsbcVariantIds))
    IN  CASE x = "<base" -> Start(RootTag, NoAttrs)
          [] x = "/base" -> End(RootTag)
          [] x = "/Section" -> End("Section")
          [] x = "/ResourceCategory" -> End("ResourceCategory")
          [] x = "bad" -> Bad
          [] x \in FsbcSectionTypes ->
                Start("Section", [Type |-> T(x), Code |-> <<"S", Num(n)>>,
                                  Name |-> <<"s", Num(n)>>])
          [] x \in CategoryTypes -> Start("ResourceCategory", [Type |-> T(x)])
          [] x \in FsbcVariantIds ->
                FsbcResource(CHOOSE v \in FsbcVariants : v.id = x, n)
          [] x = "Number" -> Leaf("ApprovingActNumber", NoAttrs, <<>>, T("N1"), TRUE)
          [] x = "Number.empty" -> Leaf("ApprovingActNumber", NoAttrs, <<>>, E, TRUE)
          [] x = "Date" -> Leaf("ApprovingActDate", NoAttrs, <<>>, T("D1"), TRUE)

FsbcDecode(sh) == [j \in 1..Len(sh) |-> FsbcToken(sh, j)]

FsbcNested ==
    {WrapShape(f) : f \in Forest(FsbcSectionTypes \ {"Prochee"}, {"R"},
                                 MaxSections, MaxLeaves)}
FsbcCategorized ==
    {WrapShape(f) : f \in Forest(CategoryTypes \cup {"Prochee"}, {"R"},
                                 MaxSections, MaxLeaves)}
FsbcFlat == {WrapShape(f) : f \in SeqsUpTo(FsbcVariantIds \cup FsbcMetaIds, MaxFlat)}
FsbcDamaged ==
    UNION {Damaged(WrapShape(f)) :
              f \in Forest({"Materialy"}, {"R", "R.0"}, MaxSections, MaxLeaves)}

\* one category, one book, one part, one section, two groups and three
\* resources of which one lacks its Price element, in every arrangement
FsbcScenario ==
    {WrapShape(<<"Materialy", "Kniga", "Chast", "Razdel", "Gruppa">>
               \o SubSeq(rs, 1, a) \o <<"/Section", "Gruppa">> \o SubSeq(rs, a + 1, 3)
               \o <<"/Section", "/Section", "/Section", "/Section", "/ResourceCategory">>) :
        rs \in {[j \in 1..3 |-> IF j = b THEN "R.0" ELSE "R"] : b \in 1..3},
        a \in 0..3}

FsbcShapes == FsbcNested \cup FsbcCategorized \cup FsbcFlat \cup FsbcDamaged
              \cup FsbcScenario

(***************************************************************************)
(* GESN documents.                                                         *)
(***************************************************************************)
\* the five recognized type labels (parsers.py:129-135) and an unrecognized one
GesnSectionTypes == {"Sbornik", "Otdel", "Razdel", "Podrazdel", "Tablica", "Prochee"}

\* the variants of a Work element: whether it has an EndName, its Content
\* child (0 none, 1 with Items of which one has an empty Text, 2 without
\* Items), its Resources child (0 none, 2 with two Resource children), its
\* NrSp child (0 none, 1 with a ReasonItem, 2 without), and whether its
\* start tag is written "<Work "
GesnVariants ==
    {[id |-> "W",     endname |-> TRUE,  content |-> 1, resources |-> 2, nrsp |-> 1, sp |-> TRUE],
     [id |-> "W.tab", endname |-> TRUE,  content |-> 0, resources |-> 0, nrsp |-> 0, sp |-> FALSE],
     [id |-> "W.e",   endname |-> FALSE, content |-> 0, resources |-> 0, nrsp |-> 0, sp |-> TRUE],
     [id |-> "W.c",   endname |-> TRUE,  content |-> 2, resources |-> 0, nrsp |-> 2, sp |-> TRUE],
     [id |-> "W.r",   endname |-> FALSE, content |-> 1, resources |-> 2, nrsp |-> 0, sp |-> TRUE]}
GesnVariantIds == {v.id : v \in GesnVariants}

GesnWork(v, n) ==
    Leaf("Work",
         [Code |-> <<"W", Num(n)>>,
          EndName |-> IF v.endname THEN <<"e", Num(n)>> ELSE E,
          MeasureUnit |-> T("m3")],
         (CASE v.content = 0 -> <<>>
            [] v.content = 1 ->
                 <<El("Content", NoAttrs,
                      <<El("Item", [Text |-> <<"a", Num(n)>>], <<>>),
                        El("Item", [Text |-> E], <<>>),
                        El("Item", [Text |-> <<"b", "|", Num(n)>>], <<>>)>>)>>
            [] v.content = 2 -> <<El("Content", NoAttrs, <<>>)>>)
         \o (CASE v.resources = 0 -> <<>>
               [] v.resources = 2 ->
                    <<El("Resources", NoAttrs,
                         <<El("Resource", [Code |-> <<"1-", Num(n)>>, EndName |-> T("x|y"),
                                           Quantity |-> T("1,5"), MeasureUnit |-> T("h")],
                              <<>>),
                           El("Resource", [Code |-> <<"2-", Num(n)>>], <<>>)>>)>>)
         \o (CASE v.nrsp = 0 -> <<>>
               [] v.nrsp = 1 ->
                    <<El("NrSp", NoAttrs,
                         <<El("ReasonItem", [Nr |-> <<"nr", Num(n)>>, Sp |-> T("sp")], <<>>),
                           El("ReasonItem", [Nr |-> T("nr'"), Sp |-> T("sp'")], <<>>)>>)>>
               [] v.nrsp = 2 -> <<El("NrSp", NoAttrs, <<>>)>>),
         E, v.sp)

\* the token that the name sh[j] of a shape stands for
GesnToken(sh, j) ==
    LET x == sh[j]
        n == Count(SubSeq(sh, 1, j), LAMBDA y : (y \in GesnSectionTypes) = (x \in GesnSectionTypes)
                                               /\ (y \in GesnVariantIds) = (x \in GesnVariantIds)
                                               /\ (y = "NameGroup") = (x = "NameGroup"))
    IN  CASE x = "<base" -> Start(RootTag, [PriceLevel |-> T("2022"), BaseName |-> T("GESN")])
          [] x = "/base" -> End(RootTag)
          [] x = "/Section" -> End("Section")
          [] x = "/ResourceCategory" -> End("ResourceCategory")
          [] x = "/NameGroup" -> End("NameGroup")
          [] x = "bad" -> Bad
          [] x \in GesnSectionTypes ->
                Start("Section", [Type |-> T(x), Code |-> <<"S", Num(n)>>,
                                  Name |-> <<"s", Num(n)>>])
          [] x = "Category" ->
                Start("ResourceCategory", [Type |-> T("Normy"), CodePrefix |-> T("GESN")])
          [] x = "NameGroup" -> Start("NameGroup", [BeginName |-> <<"G", Num(n)>>])
          [] x \in GesnVariantIds -> GesnWork(CHOOSE v \in GesnVariants : v.id = x, n)
          [] x = "Decree" -> Leaf("Decree", [Name |-> T("Prikaz")], <<>>, E, TRUE)

GesnDecode(sh) == [j \in 1..Len(sh) |-> GesnToken(sh, j)]

GesnNested ==
    {WrapShape(f) : f \in Forest(GesnSectionTypes \ {"Prochee"}, {"W"},
                                 MaxSections, MaxLeaves)}
GesnGrouped ==
    {WrapShape(f) : f \in Forest({"NameGroup", "Prochee"}, {"W", "W.e"},
                                 MaxSections, MaxLeaves)}
GesnFlat ==
    {WrapShape(<<"Category">> \o f \o <<"/ResourceCategory">>) :
        f \in SeqsUpTo(GesnVariantIds \cup {"Decree"}, MaxFlat)}
GesnDamaged ==
    UNION {Damaged(WrapShape(f)) :
              f \in Forest({"NameGroup"}, {"W"}, MaxSections, MaxLeaves)}

GesnShapes == GesnNested \cup GesnGrouped \cup GesnFlat \cup GesnDamaged

(***************************************************************************)
(* Notifications (Qt signals) of a worker.                                 *)
(***************************************************************************)
Progress(v) == [sig |-> "progress", value |-> v]
Finished    == [sig |-> "finished", value |-> 0]
Error       == [sig |-> "error", value |-> 0]

\* int(a / b * 100)
Percent(a, b) == (a * 100) \div b

(***************************************************************************)
(* iterparse: the tokenizer under both parsers.  A token is reported only  *)
(* if the bytes are well-formed up to and including it; otherwise          *)
(* iterparse raises ParseError at that place, after every earlier event    *)
(* has been handled.                                                       *)
(***************************************************************************)
AtToken == pc = "loop" /\ pos <= Len(doc)
Tok == doc[pos]

TokenOk(t) ==
    CASE t.k = "bad" -> FALSE
      [] t.k \in {"start", "leaf"} -> ~xml_root_done
      [] t.k = "end" -> xml_open # <<>> /\ Last(xml_open) = t.tag

\* the event (or, for a leaf, the events) of the token at pos has been handled
Advance ==
    /\ pos' = pos + 1
    /\ xml_open' = CASE Tok.k = "start" -> Append(xml_open, Tok.tag)
                     [] Tok.k = "end" -> Front(xml_open)
                     [] OTHER -> xml_open
    /\ xml_root_done' = CASE Tok.k = "leaf" -> (xml_open = <<>>)
                          [] Tok.k = "end" -> (Len(xml_open) = 1)
                          [] OTHER -> xml_root_done

OnEvent(w, kinds, tag) ==
    /\ worker = w
    /\ AtToken
    /\ TokenOk(Tok)
    /\ Tok.k \in kinds
    /\ Tok.tag = tag

(***************************************************************************)
(* XmlParserWorker (FSBC), parsers.py:17-118.                              *)
(***************************************************************************)
CatalogMetadata(number, date) ==
    [approving_act_number |-> number, approving_act_date |-> date]

ResourceRecord(cat, book, part, section, group, code, name, unit, cost, opt) ==
    [category_type |-> cat,
     book_code |-> book[2], book_name |-> book[3],
     part_code |-> part[2], part_name |-> part[3],
     section_code |-> section[2], section_name |-> section[3],
     group_code |-> group[2], group_name |-> group[3],
     code |-> code, name |-> name, measure_unit |-> unit,
     cost |-> cost, opt_cost |-> opt]

NoItem == <<E, E, E>>

\* one iteration of "for item in hierarchy_stack" (parsers.py:79-87)
FsbcAssign(h, item) ==
    CASE item[1] = T("Kniga")  -> [h EXCEPT !.book = item]
      [] item[1] = T("Chast")  -> [h EXCEPT !.part = item]
      [] item[1] = T("Razdel") -> [h EXCEPT !.section = item]
      [] item[1] = T("Gruppa") -> [h EXCEPT !.group = item]
      [] OTHER -> h

RECURSIVE FsbcScan(_, _)
FsbcScan(h, stack) ==
    IF stack = <<>> THEN h ELSE FsbcScan(FsbcAssign(h, Head(stack)), Tail(stack))

\* parsers.py:75-87
FsbcHierarchy(stack) ==
    FsbcScan([book |-> NoItem, part |-> NoItem, section |-> NoItem, group |-> NoItem],
             stack)

\* faulty variant: the record goes to the front of the list
AppendRecord_AtFront(recs, r) == <<r>> \o recs

\* records.append(record), parsers.py:89 and 228
AppendRecord(recs, r) == Append(recs, r)

\* faulty variant: a Resource without a Name is not rejected
FsbcRejected_NameNotChecked(code, name, price_elem) == code = E \/ price_elem = <<>>

\* the condition under which a Resource is rejected (parsers.py:67)
FsbcRejected(code, name, price_elem) == code = E \/ name = E \/ price_elem = <<>>

\* total_resources as computed by parsers.py:32-34
FsbcTotal(d) == IF RawCount(d, "Resource") = 0 THEN 1 ELSE RawCount(d, "Resource")

\* the candidate count handed to finished (parsers.py:115)
FsbcCandidateCount == total_resources

\* faulty variant: the record list of an earlier run is kept
XpRead_KeepsRecords ==
    /\ worker = "fsbc"
    /\ pc = "init"
    /\ IF readable
       THEN /\ pc' = "loop"
            /\ total_resources' = FsbcTotal(doc)
            /\ metadata' = CatalogMetadata(E, E)
            /\ hierarchy_stack' = <<>>
            /\ current_category_type' = E
            /\ parsed_count' = 0
            /\ error_count' = 0
            /\ UNCHANGED <<signals, records>>
       ELSE /\ pc' = "failed"
            /\ signals' = Append(signals, Error)
            /\ UNCHANGED <<total_resources, metadata, records, hierarchy_stack,
                           current_category_type, parsed_count, error_count>>
    /\ UNCHANGED <<pos, xml_open, xml_root_done, current_name_group_begin, delivered>>
    /\ UNCHANGED <<input_vars, ui, export_vars>>

\* parsers.py:27-41, and 117-118 when the file cannot be read
XpRead ==
    /\ worker = "fsbc"
    /\ pc = "init"
    /\ IF readable
       THEN /\ pc' = "loop"
            /\ total_resources' = FsbcTotal(doc)
            /\ metadata' = CatalogMetadata(E, E)
            /\ records' = <<>>
            /\ hierarchy_stack' = <<>>
            /\ current_category_type' = E
            /\ parsed_count' = 0
            /\ error_count' = 0
            /\ UNCHANGED signals
       ELSE /\ pc' = "failed"
            /\ signals' = Append(signals, Error)
            /\ UNCHANGED <<total_resources, metadata, records, hierarchy_stack,
                           current_category_type, parsed_count, error_count>>
    /\ UNCHANGED <<pos, xml_open, xml_root_done, current_name_group_begin, delivered>>
    /\ UNCHANGED <<input_vars, ui, export_vars>>

\* parsers.py:45-46
XpStartResourceCategory ==
    /\ OnEvent("fsbc", {"start"}, "ResourceCategory")
    /\ current_category_type' = Get(Tok.a, "Type")
    /\ Advance
    /\ UNCHANGED <<pc, total_resources, metadata, records, hierarchy_stack,
                   current_name_group_begin, parsed_count, error_count, signals,
                   delivered>>
    /\ UNCHANGED <<input_vars, ui, export_vars>>

\* faulty variant: only a Section of a recognized type label is pushed
XpStartSection_SkipsUnrecognized ==
    /\ OnEvent("fsbc", {"start"}, "Section")
    /\ hierarchy_stack' =
          IF Get(Tok.a, "Type") \in {T("Kniga"), T("Chast"), T("Razdel"), T("Gruppa")}
          THEN Append(hierarchy_stack,
                      <<Get(Tok.a, "Type"), Get(Tok.a, "Code"), Get(Tok.a, "Name")>>)
          ELSE hierarchy_stack
    /\ Advance
    /\ UNCHANGED <<pc, total_resources, metadata, records, current_category_type,
                   current_name_group_begin, parsed_count, error_count, signals,
                   delivered>>
    /\ UNCHANGED <<input_vars, ui, export_vars>>

\* parsers.py:47-50
XpStartSection ==
    /\ OnEvent("fsbc", {"start"}, "Section")
    /\ hierarchy_stack' = Append(hierarchy_stack,
            <<Get(Tok.a, "Type"), Get(Tok.a, "Code"), Get(Tok.a, "Name")>>)
    /\ Advance
    /\ UNCHANGED <<pc, total_resources, metadata, records, current_category_type,
                   current_name_group_begin, parsed_count, error_count, signals,
                   delivered>>
    /\ UNCHANGED <<input_vars, ui, export_vars>>

\* parsers.py:53-54
XpEndApprovingActNumber ==
    /\ OnEvent("fsbc", {"leaf"}, "ApprovingActNumber")
    /\ metadata' = [metadata EXCEPT !.approving_act_number = Tok.text]
    /\ Advance
    /\ UNCHANGED <<pc, total_resources, records, hierarchy_stack, current_category_type,
                   current_name_group_begin, parsed_count, error_count, signals,
                   delivered>>
    /\ UNCHANGED <<input_vars, ui, export_vars>>

\* parsers.py:55-56
XpEndApprovingActDate ==
    /\ OnEvent("fsbc", {"leaf"}, "ApprovingActDate")
    /\ metadata' = [metadata EXCEPT !.approving_act_date = Tok.text]
    /\ Advance
    /\ UNCHANGED <<pc, total_resources, records, hierarchy_stack, current_category_type,
                   current_name_group_begin, parsed_count, error_count, signals,
                   delivered>>
    /\ UNCHANGED <<input_vars, ui, export_vars>>

\* faulty variant: a rejected Resource also forgets the current category
XpEndResource_RejectForgetsCategory ==
    /\ OnEvent("fsbc", {"leaf"}, "Resource")
    /\ parsed_count' = parsed_count + 1
    /\ signals' = IF parsed_count' % ProgressEvery = 0
                  THEN Append(signals, Progress(Percent(parsed_count', total_resources)))
                  ELSE signals
    /\ LET code == Get(Tok.a, "Code")
           name == Get(Tok.a, "Name")
           measure_unit == Get(Tok.a, "MeasureUnit")
           price_elem == FindDeep(Tok.kids, "Price")
           h == FsbcHierarchy(hierarchy_stack)
       IN  IF FsbcRejected(code, name, price_elem)
           THEN /\ error_count' = error_count + 1
                /\ current_category_type' = E
                /\ UNCHANGED records
           ELSE /\ records' = AppendRecord(records,
                        ResourceRecord(current_category_type, h.book, h.part, h.section,
                                       h.group, code, name, measure_unit,
                                       Get(price_elem[1].a, "Cost"),
                                       Get(price_elem[1].a, "OptCost")))
                /\ UNCHANGED <<error_count, current_category_type>>
    /\ Advance
    /\ UNCHANGED <<pc, total_resources, metadata, hierarchy_stack,
                   current_name_group_begin, delivered>>
    /\ UNCHANGED <<input_vars, ui, export_vars>>

\* parsers.py:57-107
XpEndResource ==
    /\ OnEvent("fsbc", {"leaf"}, "Resource")
    /\ parsed_count' = parsed_count + 1
    /\ signals' = IF parsed_count' % ProgressEvery = 0
                  THEN Append(signals, Progress(Percent(parsed_count', total_resources)))
                  ELSE signals
    /\ LET code == Get(Tok.a, "Code")
           name == Get(Tok.a, "Name")
           measure_unit == Get(Tok.a, "MeasureUnit")
           price_elem == FindDeep(Tok.kids, "Price")
           h == FsbcHierarchy(hierarchy_stack)
       IN  IF FsbcRejected(code, name, price_elem)
           THEN /\ error_count' = error_count + 1
                /\ UNCHANGED records
           ELSE /\ records' = AppendRecord(records,
                        ResourceRecord(current_category_type, h.book, h.part, h.section,
                                       h.group, code, name, measure_unit,
                                       Get(price_elem[1].a, "Cost"),
                                       Get(price_elem[1].a, "OptCost")))
                /\ UNCHANGED error_count
    /\ Advance
    /\ UNCHANGED <<pc, total_resources, metadata, hierarchy_stack, current_category_type,
                   current_name_group_begin, delivered>>
    /\ UNCHANGED <<input_vars, ui, export_vars>>

\* faulty variant: a Section close event leaves the context stack as it is
XpEndSection_NoPop ==
    /\ OnEvent("fsbc", {"end"}, "Section")
    /\ Advance
    /\ UNCHANGED <<pc, total_resources, metadata, records, hierarchy_stack,
                   current_category_type, current_name_group_begin, parsed_count,
                   error_count, signals, delivered>>
    /\ UNCHANGED <<input_vars, ui, export_vars>>

\* parsers.py:109-112
XpEndSection ==
    /\ OnEvent("fsbc", {"end"}, "Section")
    /\ hierarchy_stack' = IF hierarchy_stack # <<>> THEN Front(hierarchy_stack)
                          ELSE hierarchy_stack
    /\ Advance
    /\ UNCHANGED <<pc, total_resources, metadata, records, current_category_type,
                   current_name_group_begin, parsed_count, error_count, signals,
                   delivered>>
    /\ UNCHANGED <<input_vars, ui, export_vars>>

\* an event that no branch of parsers.py:44-112 matches
FsbcHandled(t) ==
    \/ t.k = "start" /\ t.tag \in {"ResourceCategory", "Section"}
    \/ t.k = "leaf" /\ t.tag \in {"ApprovingActNumber", "ApprovingActDate", "Resource"}
    \/ t.k = "end" /\ t.tag = "Section"

\* faulty variant: the close event of a ResourceCategory empties the
\* current category
XpOtherEvent_CategoryCloseClears ==
    /\ worker = "fsbc"
    /\ AtToken
    /\ TokenOk(Tok)
    /\ ~FsbcHandled(Tok)
    /\ current_category_type' = IF Tok.k = "end" /\ Tok.tag = "ResourceCategory"
                                THEN E ELSE current_category_type
    /\ Advance
    /\ UNCHANGED <<pc, total_resources, metadata, records, hierarchy_stack,
                   current_name_group_begin, parsed_count,
                   error_count, signals, delivered>>
    /\ UNCHANGED <<input_vars, ui, export_vars>>

XpOtherEvent ==
    /\ worker = "fsbc"
    /\ AtToken
    /\ TokenOk(Tok)
    /\ ~FsbcHandled(Tok)
    /\ Advance
    /\ UNCHANGED <<pc, total_resources, metadata, records, hierarchy_stack,
                   current_category_type, current_name_group_begin, parsed_count,
                   error_count, signals, delivered>>
    /\ UNCHANGED <<input_vars, ui, export_vars>>

\* faulty variant: the exception is swallowed and nothing is emitted
XpParseError_Silent ==
    /\ worker = "fsbc"
    /\ pc = "loop"
    /\ IF pos <= Len(doc) THEN ~TokenOk(Tok) ELSE ~xml_root_done
    /\ pc' = "failed"
    /\ UNCHANGED <<pos, xml_open, xml_root_done, total_resources, metadata, records,
                   hierarchy_stack, current_category_type, current_name_group_begin,
                   parsed_count, error_count, signals, delivered>>
    /\ UNCHANGED <<input_vars, ui, export_vars>>

\* ET.iterparse raises (parsers.py:43), caught at parsers.py:117-118
XpParseError ==
    /\ worker = "fsbc"
    /\ pc = "loop"
    /\ IF pos <= Len(doc) THEN ~TokenOk(Tok) ELSE ~xml_root_done
    /\ pc' = "failed"
    /\ signals' = Append(signals, Error)
    /\ UNCHANGED <<pos, xml_open, xml_root_done, total_resources, metadata, records,
                   hierarchy_stack, current_category_type, current_name_group_begin,
                   parsed_count, error_count, delivered>>
    /\ UNCHANGED <<input_vars, ui, export_vars>>

\* faulty variant: finished is emitted without the final progress value
XpFinish_NoFinalProgress ==
    /\ worker = "fsbc"
    /\ pc = "loop"
    /\ pos > Len(doc)
    /\ xml_root_done
    /\ pc' = "done"
    /\ signals' = Append(signals, Finished)
    /\ delivered' = Append(delivered,
            [metadata |-> metadata, records |-> records,
             total |-> FsbcCandidateCount, errors |-> error_count])
    /\ UNCHANGED <<pos, xml_open, xml_root_done, total_resources, metadata, records,
                   hierarchy_stack, current_category_type, current_name_group_begin,
                   parsed_count, error_count>>
    /\ UNCHANGED <<input_vars, ui, export_vars>>

\* parsers.py:114-115
XpFinish ==
    /\ worker = "fsbc"
    /\ pc = "loop"
    /\ pos > Len(doc)
    /\ xml_root_done
    /\ pc' = "done"
    /\ signals' = signals \o <<Progress(100), Finished>>
    /\ delivered' = Append(delivered,
            [metadata |-> metadata, records |-> records,
             total |-> FsbcCandidateCount, errors |-> error_count])
    /\ UNCHANGED <<pos, xml_open, xml_root_done, total_resources, metadata, records,
                   hierarchy_stack, current_category_type, current_name_group_begin,
                   parsed_count, error_count>>
    /\ UNCHANGED <<input_vars, ui, export_vars>>

(***************************************************************************)
(* GesnXmlParserWorker (GESN), parsers.py:124-266.                         *)
(***************************************************************************)
GesnMetadata == [price_level |-> E, base_name |-> E, decree_name |-> E,
                 category_type |-> E, code_prefix |-> E]

\* SECTION_TYPE_MAP.get(s_type), parsers.py:129-135, 220: the key, or None
\* (a sequence of length 0 or 1)
SectionTypeMapGet(s_type) ==
    CASE s_type = T("Sbornik")   -> <<"sbornik">>
      [] s_type = T("Otdel")     -> <<"otdel">>
      [] s_type = T("Razdel")    -> <<"razdel">>
      [] s_type = T("Podrazdel") -> <<"podrazdel">>
      [] s_type = T("Tablica")   -> <<"table">>
      [] OTHER -> <<>>

\* faulty variant: the outermost Section of a level wins, not the innermost
GesnAssign_OutermostWins(h, item) ==
    LET key == SectionTypeMapGet(item[1])
    IN  IF key # <<>> /\ h[key[1]] = <<E, E>>
        THEN [h EXCEPT ![key[1]] = <<item[2], item[3]>>] ELSE h

\* one iteration of "for s_type, s_code, s_name in section_stack"
\* (parsers.py:219-222)
GesnAssign(h, item) ==
    LET key == SectionTypeMapGet(item[1])
    IN  IF key # <<>> THEN [h EXCEPT ![key[1]] = <<item[2], item[3]>>] ELSE h

RECURSIVE GesnScan(_, _)
GesnScan(h, stack) ==
    IF stack = <<>> THEN h ELSE GesnScan(GesnAssign(h, Head(stack)), Tail(stack))

\* parsers.py:214-222
GesnHierarchy(stack) ==
    GesnScan([sbornik |-> <<E, E>>, otdel |-> <<E, E>>, razdel |-> <<E, E>>,
              podrazdel |-> <<E, E>>, table |-> <<E, E>>],
             stack)

RECURSIVE LStrip(_)
LStrip(text) == IF text # <<>> /\ Head(text) = " " THEN LStrip(Tail(text)) ELSE text
RECURSIVE RStrip(_)
RStrip(text) == IF text # <<>> /\ Last(text) = " " THEN RStrip(Front(text)) ELSE text
\* str.strip()
Strip(text) == RStrip(LStrip(text))

\* faulty variant: the joined name is not stripped
FullName_NoStrip(begin, end_name) ==
    IF end_name # E THEN begin \o <<" ">> \o end_name ELSE begin

\* parsers.py:224-226
FullName(begin, end_name) ==
    IF end_name # E THEN Strip(begin \o <<" ">> \o end_name) ELSE begin

\* parsers.py:187-193
ContentItems(kids) ==
    LET content_el == Find(kids, "Content")
    IN  IF content_el # <<>>
        THEN SelectSeq([j \in 1..Len(FindAll(content_el[1].kids, "Item")) |->
                            Get(FindAll(content_el[1].kids, "Item")[j].a, "Text")],
                       LAMBDA text : text # E)
        ELSE <<>>

\* parsers.py:199-204
GesnWorkResource(res_el) ==
    [code |-> Get(res_el.a, "Code"), end_name |-> Get(res_el.a, "EndName"),
     quantity |-> Get(res_el.a, "Quantity"), measure_unit |-> Get(res_el.a, "MeasureUnit")]

\* parsers.py:195-204
WorkResources(kids) ==
    LET resources_el == Find(kids, "Resources")
    IN  IF resources_el # <<>>
        THEN [j \in 1..Len(FindAll(resources_el[1].kids, "Resource")) |->
                 GesnWorkResource(FindAll(resources_el[1].kids, "Resource")[j])]
        ELSE <<>>

\* parsers.py:206-212: <<nr, sp>>
NrSp(kids) ==
    LET nrsp_el == Find(kids, "NrSp")
        reason == IF nrsp_el # <<>> THEN Find(nrsp_el[1].kids, "ReasonItem") ELSE <<>>
    IN  IF reason # <<>> THEN <<Get(reason[1].a, "Nr"), Get(reason[1].a, "Sp")>>
        ELSE <<E, E>>

\* parsers.py:228-248
GesnWorkRecord(t, stack, begin) ==
    LET hierarchy == GesnHierarchy(stack)
        end_name == Get(t.a, "EndName")
    IN  [sbornik_code |-> hierarchy.sbornik[1], sbornik_name |-> hierarchy.sbornik[2],
         otdel_code |-> hierarchy.otdel[1], otdel_name |-> hierarchy.otdel[2],
         razdel_code |-> hierarchy.razdel[1], razdel_name |-> hierarchy.razdel[2],
         podrazdel_code |-> hierarchy.podrazdel[1],
         podrazdel_name |-> hierarchy.podrazdel[2],
         table_code |-> hierarchy.table[1], table_name |-> hierarchy.table[2],
         name_group_begin |-> begin,
         code |-> Get(t.a, "Code"),
         end_name |-> end_name,
         measure_unit |-> Get(t.a, "MeasureUnit"),
         full_name |-> FullName(begin, end_name),
         content_items |-> ContentItems(t.kids),
         resources |-> WorkResources(t.kids),
         nr |-> NrSp(t.kids)[1],
         sp |-> NrSp(t.kids)[2]]

\* the places inside the try block of parsers.py:182-248 where an exception
\* (such as MemoryError) can be raised while one Work is extracted
ExtractionFaults == {"content", "resources", "nrsp", "hierarchy"}

\* total_works as computed by parsers.py:147-149
GesnTotal(d) == IF RawCount(d, "Work") = 0 THEN 1 ELSE RawCount(d, "Work")

\* parsers.py:142-156, and 265-266 when the file cannot be read
XgRead ==
    /\ worker = "gesn"
    /\ pc = "init"
    /\ IF readable
       THEN /\ pc' = "loop"
            /\ total_resources' = GesnTotal(doc)
            /\ metadata' = GesnMetadata
            /\ records' = <<>>
            /\ hierarchy_stack' = <<>>
            /\ current_name_group_begin' = E
            /\ parsed_count' = 0
            /\ error_count' = 0
            /\ UNCHANGED signals
       ELSE /\ pc' = "failed"
            /\ signals' = Append(signals, Error)
            /\ UNCHANGED <<total_resources, metadata, records, hierarchy_stack,
                           current_name_group_begin, parsed_count, error_count>>
    /\ UNCHANGED <<pos, xml_open, xml_root_done, current_category_type, delivered>>
    /\ UNCHANGED <<input_vars, ui, export_vars>>

\* parsers.py:160-162
XgStartBase ==
    /\ OnEvent("gesn", {"start"}, "base")
    /\ metadata' = [metadata EXCEPT !.price_level = Get(Tok.a, "PriceLevel"),
                                    !.base_name = Get(Tok.a, "BaseName")]
    /\ Advance
    /\ UNCHANGED <<pc, total_resources, records, hierarchy_stack, current_category_type,
                   current_name_group_begin, parsed_count, error_count, signals,
                   delivered>>
    /\ UNCHANGED <<input_vars, ui, export_vars>>

\* parsers.py:163-165
XgStartResourceCategory ==
    /\ OnEvent("gesn", {"start"}, "ResourceCategory")
    /\ metadata' = [metadata EXCEPT !.category_type = Get(Tok.a, "Type"),
                                    !.code_prefix = Get(Tok.a, "CodePrefix")]
    /\ Advance
    /\ UNCHANGED <<pc, total_resources, records, hierarchy_stack, current_category_type,
                   current_name_group_begin, parsed_count, error_count, signals,
                   delivered>>
    /\ UNCHANGED <<input_vars, ui, export_vars>>

\* parsers.py:166-169
XgStartSection ==
    /\ OnEvent("gesn", {"start"}, "Section")
    /\ hierarchy_stack' = Append(hierarchy_stack,
            <<Get(Tok.a, "Type"), Get(Tok.a, "Code"), Get(Tok.a, "Name")>>)
    /\ Advance
    /\ UNCHANGED <<pc, total_resources, metadata, records, current_category_type,
                   current_name_group_begin, parsed_count, error_count, signals,
                   delivered>>
    /\ UNCHANGED <<input_vars, ui, export_vars>>

\* parsers.py:170-171
XgStartNameGroup ==
    /\ OnEvent("gesn", {"start"}, "NameGroup")
    /\ current_name_group_begin' = Get(Tok.a, "BeginName")
    /\ Advance
    /\ UNCHANGED <<pc, total_resources, metadata, records, hierarchy_stack,
                   current_category_type, parsed_count, error_count, signals, delivered>>
    /\ UNCHANGED <<input_vars, ui, export_vars>>

\* parsers.py:174-175
XgEndDecree ==
    /\ OnEvent("gesn", {"leaf"}, "Decree")
    /\ metadata' = [metadata EXCEPT !.decree_name = Get(Tok.a, "Name")]
    /\ Advance
    /\ UNCHANGED <<pc, total_resources, records, hierarchy_stack, current_category_type,
                   current_name_group_begin, parsed_count, error_count, signals,
                   delivered>>
    /\ UNCHANGED <<input_vars, ui, export_vars>>

\* faulty variant: a failure of the extraction is not caught per Work: it ends the run
XgEndWork_FailureAborts ==
    /\ OnEvent("gesn", {"leaf"}, "Work")
    /\ parsed_count' = parsed_count + 1
    /\ \E fault \in {"none"} \cup ExtractionFaults :
          IF fault = "none"
          THEN /\ records' = AppendRecord(records,
                      GesnWorkRecord(Tok, hierarchy_stack, current_name_group_begin))
               /\ Advance
               /\ UNCHANGED <<pc, signals>>
          ELSE /\ pc' = "failed"
               /\ signals' = Append(signals, Error)
               /\ UNCHANGED <<records, pos, xml_open, xml_root_done>>
    /\ UNCHANGED <<total_resources, metadata, hierarchy_stack, current_category_type,
                   current_name_group_begin, error_count, delivered>>
    /\ UNCHANGED <<input_vars, ui, export_vars>>

\* parsers.py:177-252; fault is the place where the extraction raises, if any
XgEndWork ==
    /\ OnEvent("gesn", {"leaf"}, "Work")
    /\ parsed_count' = parsed_count + 1
    /\ signals' = IF parsed_count' % GesnProgressEvery = 0
                  THEN Append(signals, Progress(Percent(parsed_count', total_resources)))
                  ELSE signals
    /\ \E fault \in {"none"} \cup ExtractionFaults :
          IF fault = "none"
          THEN /\ records' = AppendRecord(records,
                      GesnWorkRecord(Tok, hierarchy_stack, current_name_group_begin))
               /\ UNCHANGED error_count
          ELSE /\ error_count' = error_count + 1
               /\ UNCHANGED records
    /\ Advance
    /\ UNCHANGED <<pc, total_resources, metadata, hierarchy_stack, current_category_type,
                   current_name_group_begin, delivered>>
    /\ UNCHANGED <<input_vars, ui, export_vars>>

\* parsers.py:254-255
XgEndNameGroup ==
    /\ OnEvent("gesn", {"end"}, "NameGroup")
    /\ current_name_group_begin' = E
    /\ Advance
    /\ UNCHANGED <<pc, total_resources, metadata, records, hierarchy_stack,
                   current_category_type, parsed_count, error_count, signals, delivered>>
    /\ UNCHANGED <<input_vars, ui, export_vars>>

\* faulty variant: a Section close event removes the oldest entry
XgEndSection_PopsBottom ==
    /\ OnEvent("gesn", {"end"}, "Section")
    /\ hierarchy_stack' = IF hierarchy_stack # <<>> THEN Tail(hierarchy_stack)
                          ELSE hierarchy_stack
    /\ Advance
    /\ UNCHANGED <<pc, total_resources, metadata, records, current_category_type,
                   current_name_group_begin, parsed_count, error_count, signals,
                   delivered>>
    /\ UNCHANGED <<input_vars, ui, export_vars>>

\* parsers.py:257-260
XgEndSection ==
    /\ OnEvent("gesn", {"end"}, "Section")
    /\ hierarchy_stack' = IF hierarchy_stack # <<>> THEN Front(hierarchy_stack)
                          ELSE hierarchy_stack
    /\ Advance
    /\ UNCHANGED <<pc, total_resources, metadata, records, current_category_type,
                   current_name_group_begin, parsed_count, error_count, signals,
                   delivered>>
    /\ UNCHANGED <<input_vars, ui, export_vars>>

\* an event that no branch of parsers.py:159-260 matches
GesnHandled(t) ==
    \/ t.k = "start" /\ t.tag \in {"base", "ResourceCategory", "Section", "NameGroup"}
    \/ t.k = "leaf" /\ t.tag \in {"Decree", "Work"}
    \/ t.k = "end" /\ t.tag \in {"NameGroup", "Section"}

XgOtherEvent ==
    /\ worker = "gesn"
    /\ AtToken
    /\ TokenOk(Tok)
    /\ ~GesnHandled(Tok)
    /\ Advance
    /\ UNCHANGED <<pc, total_resources, metadata, records, hierarchy_stack,
                   current_category_type, current_name_group_begin, parsed_count,
                   error_count, signals, delivered>>
    /\ UNCHANGED <<input_vars, ui, export_vars>>

\* faulty variant: what was accumulated before the failure is delivered
XgParseError_DeliversPartial ==
    /\ worker = "gesn"
    /\ pc = "loop"
    /\ IF pos <= Len(doc) THEN ~TokenOk(Tok) ELSE ~xml_root_done
    /\ pc' = "failed"
    /\ signals' = signals \o <<Finished, Error>>
    /\ delivered' = Append(delivered,
            [metadata |-> metadata, records |-> records,
             total |-> parsed_count, errors |-> error_count])
    /\ UNCHANGED <<pos, xml_open, xml_root_done, total_resources, metadata, records,
                   hierarchy_stack, current_category_type, current_name_group_begin,
                   parsed_count, error_count>>
    /\ UNCHANGED <<input_vars, ui, export_vars>>

\* ET.iterparse raises (parsers.py:158), caught at parsers.py:265-266
XgParseError ==
    /\ worker = "gesn"
    /\ pc = "loop"
    /\ IF pos <= Len(doc) THEN ~TokenOk(Tok) ELSE ~xml_root_done
    /\ pc' = "failed"
    /\ signals' = Append(signals, Error)
    /\ UNCHANGED <<pos, xml_open, xml_root_done, total_resources, metadata, records,
                   hierarchy_stack, current_category_type, current_name_group_begin,
                   parsed_count, error_count, delivered>>
    /\ UNCHANGED <<input_vars, ui, export_vars>>

\* faulty variant: the count taken before the parse is delivered as the
\* candidate count
XgFinish_DeliversPreScan ==
    /\ worker = "gesn"
    /\ pc = "loop"
    /\ pos > Len(doc)
    /\ xml_root_done
    /\ pc' = "done"
    /\ signals' = signals \o <<Progress(100), Finished>>
    /\ delivered' = Append(delivered,
            [metadata |-> metadata, records |-> records,
             total |-> total_resources, errors |-> error_count])
    /\ UNCHANGED <<pos, xml_open, xml_root_done, total_resources, metadata, records,
                   hierarchy_stack, current_category_type, current_name_group_begin,
                   parsed_count, error_count>>
    /\ UNCHANGED <<input_vars, ui, export_vars>>

\* parsers.py:262-263
XgFinish ==
    /\ worker = "gesn"
    /\ pc = "loop"
    /\ pos > Len(doc)
    /\ xml_root_done
    /\ pc' = "done"
    /\ signals' = signals \o <<Progress(100), Finished>>
    /\ delivered' = Append(delivered,
            [metadata |-> metadata, records |-> records,
             total |-> parsed_count, errors |-> error_count])
    /\ UNCHANGED <<pos, xml_open, xml_root_done, total_resources, metadata, records,
                   hierarchy_stack, current_category_type, current_name_group_begin,
                   parsed_count, error_count>>
    /\ UNCHANGED <<input_vars, ui, export_vars>>

(***************************************************************************)
(* The FSBC tab of the window, main_window.py:267-360 (the part that       *)
(* carries a parse result to the exporter).                                *)
(***************************************************************************)
\* main_window.py:289-310
OnParseFinished ==
    /\ worker = "fsbc"
    /\ pc = "done"
    /\ ~ui.parse_handled
    /\ ui' = [ui EXCEPT !.parse_handled = TRUE,
                        !._metadata = <<Last(delivered).metadata>>,
                        !._records = Last(delivered).records,
                        !._total_in_xml = Last(delivered).total,
                        !._parse_errors = Last(delivered).errors]
    /\ UNCHANGED <<input_vars, parser_vars, export_vars>>

\* main_window.py:320-343; the destination chosen in the dialog may or may
\* not be writable
OnExportClicked ==
    /\ worker = "fsbc"
    /\ ui.parse_handled
    /\ epc = "idle"
    /\ ~(ui._records = <<>> \/ ui._metadata = <<>>)
    /\ \E w \in BOOLEAN :
          exp' = [metadata |-> ui._metadata[1], records |-> ui._records,
                  total_in_xml |-> ui._total_in_xml, parse_errors |-> ui._parse_errors,
                  writable |-> w]
    /\ epc' = "start"
    /\ UNCHANGED <<lines, cur, i, exp_signals, exp_totals, out_file>>
    /\ UNCHANGED <<input_vars, parser_vars, ui>>

(***************************************************************************)
(* MarkdownExporterWorker (FSBC), exporters.py:11-118.                     *)
(***************************************************************************)
Blank == <<>>
Rule == <<"---">>
Hashes(n) == [j \in 1..n |-> "#"]

\* f"{'#' * n} {text}"
Heading(n, text) == Hashes(n) \o <<" ">> \o text
\* f"{'#' * n} {code}. {name}"
CodeHeading(n, code, name) == Hashes(n) \o <<" ">> \o code \o <<".", " ">> \o name

RECURSIVE Escape_FirstOnly(_)
\* faulty variant: only the first pipe is replaced
Escape_FirstOnly(text) ==
    IF text = <<>> THEN <<>>
    ELSE IF Head(text) = "|" THEN <<"\\", "|">> \o Tail(text)
         ELSE <<Head(text)>> \o Escape_FirstOnly(Tail(text))

RECURSIVE Escape(_)
\* text.replace("|", r"\|")
Escape(text) ==
    IF text = <<>> THEN <<>>
    ELSE (IF Head(text) = "|" THEN <<"\\", "|">> ELSE <<Head(text)>>) \o Escape(Tail(text))

\* f"| {a} | {b} | ... |"
RowOf(cells) ==
    <<"|">> \o Flatten([j \in 1..Len(cells) |-> <<" ">> \o cells[j] \o <<" ", "|">>])

FsbcTableHeader ==
    RowOf(<<T("Kod"), T("Naimenovanie"), T("Ed. izm."), T("Stoimost"), T("Opt. stoimost")>>)
FsbcTableRule ==
    <<"|", "-----", "|", "-------------", "|", "----------", "|", "-----------", "|",
      "----------------", "|">>

NoTrackers == [cat |-> <<>>, book |-> <<>>, part |-> <<>>, section |-> <<>>, group |-> <<>>]

\* exporters.py:45-49; st = [cur |-> trackers, lines |-> lines]
EmitCategory(st, r) ==
    IF st.cur.cat # <<r.category_type>>
    THEN [cur |-> [NoTrackers EXCEPT !.cat = <<r.category_type>>],
          lines |-> st.lines \o <<Heading(1, r.category_type), Blank>>]
    ELSE st

\* faulty variant: the book heading is written for every record
EmitBook_EveryRecord(st, r) ==
    [cur |-> [st.cur EXCEPT !.book = <<r.book_code>>, !.part = <<>>,
                            !.section = <<>>, !.group = <<>>],
     lines |-> st.lines \o <<CodeHeading(2, r.book_code, r.book_name), Blank>>]

\* exporters.py:51-55
EmitBook(st, r) ==
    IF st.cur.book # <<r.book_code>>
    THEN [cur |-> [st.cur EXCEPT !.book = <<r.book_code>>, !.part = <<>>,
                                 !.section = <<>>, !.group = <<>>],
          lines |-> st.lines \o <<CodeHeading(2, r.book_code, r.book_name), Blank>>]
    ELSE st

\* faulty variant: a new part resets no deeper tracker
EmitPart_NoReset(st, r) ==
    IF st.cur.part # <<r.part_code>>
    THEN [cur |-> [st.cur EXCEPT !.part = <<r.part_code>>],
          lines |-> st.lines \o <<CodeHeading(3, r.part_code, r.part_name), Blank>>]
    ELSE st

\* exporters.py:57-61
EmitPart(st, r) ==
    IF st.cur.part # <<r.part_code>>
    THEN [cur |-> [st.cur EXCEPT !.part = <<r.part_code>>, !.section = <<>>,
                                 !.group = <<>>],
          lines |-> st.lines \o <<CodeHeading(3, r.part_code, r.part_name), Blank>>]
    ELSE st

\* faulty variant: a new section does not reset the group tracker
EmitSection_NoReset(st, r) ==
    IF st.cur.section # <<r.section_code>>
    THEN [cur |-> [st.cur EXCEPT !.section = <<r.section_code>>],
          lines |-> st.lines \o <<CodeHeading(4, r.section_code, r.section_name), Blank>>]
    ELSE st

\* exporters.py:63-67
EmitSection(st, r) ==
    IF st.cur.section # <<r.section_code>>
    THEN [cur |-> [st.cur EXCEPT !.section = <<r.section_code>>, !.group = <<>>],
          lines |-> st.lines \o <<CodeHeading(4, r.section_code, r.section_name), Blank>>]
    ELSE st

\* faulty variant: the group heading and the table header are written for
\* every record
EmitGroup_EveryRecord(st, r) ==
    [cur |-> [st.cur EXCEPT !.group = <<r.group_code>>],
     lines |-> st.lines \o <<CodeHeading(5, r.group_code, r.group_name), Blank,
                             FsbcTableHeader, FsbcTableRule>>]

\* exporters.py:69-74
EmitGroup(st, r) ==
    IF st.cur.group # <<r.group_code>>
    THEN [cur |-> [st.cur EXCEPT !.group = <<r.group_code>>],
          lines |-> st.lines \o <<CodeHeading(5, r.group_code, r.group_name), Blank,
                                  FsbcTableHeader, FsbcTableRule>>]
    ELSE st

\* faulty variant: the cost column carries the wholesale cost
FsbcRow_CostSwapped(r) ==
    RowOf(<<r.code, Escape(r.name), r.measure_unit, r.opt_cost, r.opt_cost>>)

\* exporters.py:76-79
FsbcRow(r) == RowOf(<<r.code, Escape(r.name), r.measure_unit, r.cost, r.opt_cost>>)

EmitRow(st, r) == [st EXCEPT !.lines = Append(@, FsbcRow(r))]

\* the body of the loop, exporters.py:45-79
EmitRecord(st, r) ==
    EmitRow(EmitGroup(EmitSection(EmitPart(EmitBook(EmitCategory(st, r), r), r), r), r), r)

RECURSIVE CatCounts_NewestFirst(_, _)
\* faulty variant: a category seen for the first time goes to the front
CatCounts_NewestFirst(items, recs) ==
    IF recs = <<>> THEN items
    ELSE LET c == Head(recs).category_type
             hit == {j \in 1..Len(items) : items[j].key = c}
         IN  CatCounts_NewestFirst(
                 IF hit = {} THEN <<[key |-> c, count |-> 1]>> \o items
                 ELSE [j \in 1..Len(items) |->
                         IF j \in hit THEN [items[j] EXCEPT !.count = @ + 1]
                         ELSE items[j]],
                 Tail(recs))

RECURSIVE CatCounts(_, _)
\* exporters.py:84-88: the dict cat_counts, as the sequence of its items in
\* insertion order
CatCounts(items, recs) ==
    IF recs = <<>> THEN items
    ELSE LET c == Head(recs).category_type
             hit == {j \in 1..Len(items) : items[j].key = c}
         IN  CatCounts(IF hit = {} THEN Append(items, [key |-> c, count |-> 1])
                       ELSE [j \in 1..Len(items) |->
                               IF j \in hit THEN [items[j] EXCEPT !.count = @ + 1]
                               ELSE items[j]],
                       Tail(recs))

\* exporters.py:85-90: the sets book_codes and group_codes
BookCodes(recs) == {recs[j].book_code : j \in 1..Len(recs)}
GroupCodes(recs) == {recs[j].group_code : j \in 1..Len(recs)}

\* exporters.py:29-35
FsbcTitleLines(m) ==
    <<Heading(1, T("Federalnyj sbornik bazovyh cen na materialy i oborudovanie")),
      Blank,
      <<"**Utverzhdayushchij akt:**", " ">> \o m.approving_act_number \o <<" ", " ">>,
      <<"**Data utverzhdeniya:**", " ">> \o m.approving_act_date,
      Blank, Rule, Blank>>

\* exporters.py:92-109
FsbcSummaryLines(e) ==
    LET items == CatCounts(<<>>, e.records)
    IN  <<Blank, Rule, Blank,
          Heading(1, T("Svodnaya informaciya po konvertacii")),
          Blank,
          <<"-", " ", "**Prochitano resursov v XML:**", " ">> \o Dec(e.total_in_xml),
          <<"-", " ", "**Sozdano zapisej v dokumente:**", " ">> \o Dec(Len(e.records)),
          <<"-", " ", "**Propushcheno (oshibki):**", " ">> \o Dec(e.parse_errors),
          <<"-", " ", "**Knig (razdelov verhnego urovnya):**", " ">>
              \o Dec(Cardinality(BookCodes(e.records))),
          <<"-", " ", "**Grupp resursov:**", " ">>
              \o Dec(Cardinality(GroupCodes(e.records))),
          Blank,
          <<"**Po kategoriyam:**">>,
          Blank,
          RowOf(<<T("Kategoriya"), T("Kol-vo resursov")>>),
          <<"|", "-----------", "|", "-----------------", "|">>>>
        \o [j \in 1..Len(items) |-> RowOf(<<items[j].key, Dec(items[j].count)>>)]
        \o <<Blank>>

\* faulty variant: the destination is opened before the document is assembled
ExpBegin_OpensDestination ==
    /\ epc = "start"
    /\ epc' = "loop"
    /\ lines' = FsbcTitleLines(exp.metadata)
    /\ cur' = NoTrackers
    /\ i' = 0
    /\ out_file' = IF exp.writable THEN [exists |-> TRUE, content |-> <<>>] ELSE out_file
    /\ UNCHANGED <<exp, exp_signals, exp_totals>>
    /\ UNCHANGED <<input_vars, parser_vars, ui>>

\* exporters.py:27-42
ExpBegin ==
    /\ epc = "start"
    /\ epc' = "loop"
    /\ lines' = FsbcTitleLines(exp.metadata)
    /\ cur' = NoTrackers
    /\ i' = 0
    /\ UNCHANGED <<exp, exp_signals, exp_totals, out_file>>
    /\ UNCHANGED <<input_vars, parser_vars, ui>>

\* one iteration of the loop, exporters.py:44-82
ExpRecord ==
    /\ epc = "loop"
    /\ i < Len(exp.records)
    /\ LET st == EmitRecord([cur |-> cur, lines |-> lines], exp.records[i + 1])
       IN  /\ cur' = st.cur
           /\ lines' = st.lines
    /\ exp_signals' = IF i % ExpProgressEvery = 0
                      THEN Append(exp_signals, Progress(Percent(i, Len(exp.records))))
                      ELSE exp_signals
    /\ i' = i + 1
    /\ UNCHANGED <<epc, exp, exp_totals, out_file>>
    /\ UNCHANGED <<input_vars, parser_vars, ui>>

\* exporters.py:84-118
ExpFinish ==
    /\ epc = "loop"
    /\ i = Len(exp.records)
    /\ lines' = lines \o FsbcSummaryLines(exp)
    /\ IF exp.writable
       THEN /\ out_file' = [exists |-> TRUE, content |-> lines']
            /\ exp_signals' = exp_signals \o <<Progress(100), Finished>>
            /\ epc' = "done"
       ELSE /\ exp_signals' = Append(exp_signals, Error)
            /\ epc' = "failed"
            /\ UNCHANGED out_file
    /\ UNCHANGED <<exp, cur, i, exp_totals>>
    /\ UNCHANGED <<input_vars, parser_vars, ui>>

(***************************************************************************)
(* GesnMarkdownExporterWorker (GESN), exporters.py:124-224.  The document  *)
(* is written to the destination as the records are iterated; the content  *)
(* of the destination is kept as the sequence of its lines.                *)
(***************************************************************************)
\* self._escape, exporters.py:141-142
GesnEscape(text) == Escape(text)

RECURSIVE Join(_, _)
\* sep.join(parts)
Join(parts, sep) ==
    IF parts = <<>> THEN <<>>
    ELSE IF Len(parts) = 1 THEN parts[1]
         ELSE parts[1] \o sep \o Join(Tail(parts), sep)

\* f'{label} {code} "{name}"', exporters.py:147-153
NamedSegment(label, code, name) ==
    <<label, " ">> \o code \o <<" ", "\"">> \o name \o <<"\"">>

\* faulty variant: a level contributes a segment when its name is not empty
BuildBreadcrumb_ByName(w) ==
    Join(  (IF w.sbornik_name # E
            THEN <<NamedSegment("Sbornik", w.sbornik_code, w.sbornik_name)>> ELSE <<>>)
        \o (IF w.otdel_name # E
            THEN <<NamedSegment("Otdel", w.otdel_code, w.otdel_name)>> ELSE <<>>)
        \o (IF w.razdel_name # E
            THEN <<NamedSegment("Razdel", w.razdel_code, w.razdel_name)>> ELSE <<>>)
        \o (IF w.podrazdel_name # E
            THEN <<NamedSegment("Podrazdel", w.podrazdel_code, w.podrazdel_name)>> ELSE <<>>)
        \o (IF w.table_name # E
            THEN <<<<"Tablica", " ">> \o w.table_code>> ELSE <<>>),
        <<" ", ">", " ">>)

\* self._build_breadcrumb, exporters.py:144-156
BuildBreadcrumb(w) ==
    Join(  (IF w.sbornik_code # E
            THEN <<NamedSegment("Sbornik", w.sbornik_code, w.sbornik_name)>> ELSE <<>>)
        \o (IF w.otdel_code # E
            THEN <<NamedSegment("Otdel", w.otdel_code, w.otdel_name)>> ELSE <<>>)
        \o (IF w.razdel_code # E
            THEN <<NamedSegment("Razdel", w.razdel_code, w.razdel_name)>> ELSE <<>>)
        \o (IF w.podrazdel_code # E
            THEN <<NamedSegment("Podrazdel", w.podrazdel_code, w.podrazdel_name)>> ELSE <<>>)
        \o (IF w.table_code # E
            THEN <<<<"Tablica", " ">> \o w.table_code>> ELSE <<>>),
        <<" ", ">", " ">>)

\* the three digits of a group of f"{n:,}"
Pad3(n) == <<DigitChar[(n \div 100) + 1], DigitChar[((n \div 10) % 10) + 1],
             DigitChar[(n % 10) + 1]>>

RECURSIVE DecComma(_)
\* f"{n:,}": decimal digits in groups of three, separated by commas
DecComma(n) == IF n < 1000 THEN Dec(n)
               ELSE DecComma(n \div 1000) \o <<",">> \o Pad3(n % 1000)

GesnTableHeader ==
    RowOf(<<T("Kod resursa"), T("Naimenovanie"), T("Ed. izm."), T("Kolichestvo")>>)
GesnTableRule == <<"|", "---", "|", "---", "|", "---", "|", "---", "|">>

\* exporters.py:197-202
GesnRow(res) ==
    RowOf(<<res.code, GesnEscape(res.end_name), res.measure_unit, res.quantity>>)

\* exporters.py:165-170
GesnTitleLines(e) ==
    <<Heading(1, e.doc_title), Blank,
      <<"**Baza:**", " ">> \o e.metadata.base_name \o <<" ", " ">>,
      <<"**Cenovoj uroven:**", " ">> \o e.metadata.price_level \o <<" ", " ">>,
      <<"**Osnovanie:**", " ">> \o e.metadata.decree_name \o <<" ", " ">>,
      <<"**Kategoriya:**", " ">> \o e.metadata.category_type, Blank,
      Rule, Blank>>

\* exporters.py:176-205: the lines written for one record
GesnBlock(w) ==
    LET safe_name == GesnEscape(w.full_name)
        breadcrumb == GesnEscape(BuildBreadcrumb(w))
    IN  <<<<"#", "#", " ", "GESN", " ">> \o w.code \o <<" ", "-", " ">> \o safe_name, Blank,
          <<"**Kod normy:**", " ">> \o w.code \o <<" ", " ">>,
          <<"**Edinica izmereniya:**", " ">> \o w.measure_unit \o <<" ", " ">>,
          <<"**Raspolozhenie:**", " ">> \o breadcrumb \o <<" ", " ">>>>
        \o (IF w.nr # E \/ w.sp # E
            THEN << <<"**Nr:**", " ">> \o w.nr \o <<" ", "|", " ", "**Sp:**", " ">> \o w.sp >>
            ELSE <<>>)
        \o <<Blank>>
        \o (IF w.content_items # <<>>
            THEN <<Heading(3, T("Sostav rabot")), Blank>>
                 \o [j \in 1..Len(w.content_items) |->
                        <<"-", " ">> \o GesnEscape(w.content_items[j])]
                 \o <<Blank>>
            ELSE <<>>)
        \o (IF w.resources # <<>>
            THEN <<Heading(3, T("Resursy")), Blank, GesnTableHeader, GesnTableRule>>
                 \o [j \in 1..Len(w.resources) |-> GesnRow(w.resources[j])]
                 \o <<Blank>>
            ELSE <<>>)
        \o <<Rule, Blank>>

\* faulty variant: the two aggregate counts are written in each other's row
GesnSummaryLines_Swapped(e, totals) ==
    <<Heading(1, T("Svodnaya informaciya po konvertacii")), Blank,
      RowOf(<<T("Parametr"), T("Znachenie")>>),
      <<"|", "---", "|", "---", "|">>,
      RowOf(<<T("Vsego obrabotano elementov Work v XML"), DecComma(e.total_parsed)>>),
      RowOf(<<T("Uspeshno sozdano zapisej v Markdown"), DecComma(Len(e.records))>>),
      RowOf(<<T("Propushcheno s oshibkami"), DecComma(e.parse_errors)>>),
      RowOf(<<T("Obshchee kolichestvo resursov"), DecComma(totals.total_content_items)>>),
      RowOf(<<T("Obshchee kolichestvo punktov sostava rabot"),
              DecComma(totals.total_resources)>>)>>

\* exporters.py:210-218
GesnSummaryLines(e, totals) ==
    <<Heading(1, T("Svodnaya informaciya po konvertacii")), Blank,
      RowOf(<<T("Parametr"), T("Znachenie")>>),
      <<"|", "---", "|", "---", "|">>,
      RowOf(<<T("Vsego obrabotano elementov Work v XML"), DecComma(e.total_parsed)>>),
      RowOf(<<T("Uspeshno sozdano zapisej v Markdown"), DecComma(Len(e.records))>>),
      RowOf(<<T("Propushcheno s oshibkami"), DecComma(e.parse_errors)>>),
      RowOf(<<T("Obshchee kolichestvo resursov"), DecComma(totals.total_resources)>>),
      RowOf(<<T("Obshchee kolichestvo punktov sostava rabot"),
              DecComma(totals.total_content_items)>>)>>

\* exporters.py:159-170, and 223-224 when the destination cannot be opened
GxBegin ==
    /\ epc = "gstart"
    /\ exp_totals' = [total_resources |-> 0, total_content_items |-> 0]
    /\ IF exp.writable
       THEN /\ out_file' = [exists |-> TRUE, content |-> GesnTitleLines(exp)]
            /\ epc' = "gloop"
            /\ i' = 0
            /\ UNCHANGED exp_signals
       ELSE /\ exp_signals' = Append(exp_signals, Error)
            /\ epc' = "failed"
            /\ UNCHANGED <<out_file, i>>
    /\ UNCHANGED <<exp, lines, cur>>
    /\ UNCHANGED <<input_vars, parser_vars, ui>>

\* faulty variant: the blocks are kept in memory until the loop has ended, so
\* a failure leaves the header only
GxRecord_WritesAtEnd ==
    /\ epc = "gloop"
    /\ i < Len(exp.records)
    /\ exp_totals' =
          [total_resources |-> exp_totals.total_resources + Len(exp.records[i + 1].resources),
           total_content_items |->
               exp_totals.total_content_items + Len(exp.records[i + 1].content_items)]
    /\ \E written \in 0..Len(GesnBlock(exp.records[i + 1])) :
          IF written = Len(GesnBlock(exp.records[i + 1]))
          THEN /\ out_file' = [out_file EXCEPT !.content = @ \o GesnBlock(exp.records[i + 1])]
               /\ exp_signals' =
                     IF i % GesnExpProgressEvery = 0
                     THEN Append(exp_signals, Progress(Percent(i, Len(exp.records))))
                     ELSE exp_signals
               /\ i' = i + 1
               /\ UNCHANGED epc
          ELSE /\ out_file' = [out_file EXCEPT !.content = GesnTitleLines(exp)]
               /\ exp_signals' = Append(exp_signals, Error)
               /\ epc' = "failed"
               /\ UNCHANGED i
    /\ UNCHANGED <<exp, lines, cur>>
    /\ UNCHANGED <<input_vars, parser_vars, ui>>

\* one iteration of the loop, exporters.py:172-208.  The iteration fails
\* when a record cannot be formatted or a write raises (caught at
\* exporters.py:223-224): written is the number of lines of the block that
\* were written before, and what was written stays at the destination.
GxRecord ==
    /\ epc = "gloop"
    /\ i < Len(exp.records)
    /\ exp_totals' =
          [total_resources |-> exp_totals.total_resources + Len(exp.records[i + 1].resources),
           total_content_items |->
               exp_totals.total_content_items + Len(exp.records[i + 1].content_items)]
    /\ \E written \in 0..Len(GesnBlock(exp.records[i + 1])) :
          /\ out_file' = [out_file EXCEPT
                             !.content = @ \o SubSeq(GesnBlock(exp.records[i + 1]), 1, written)]
          /\ IF written = Len(GesnBlock(exp.records[i + 1]))
             THEN /\ exp_signals' =
                        IF i % GesnExpProgressEvery = 0
                        THEN Append(exp_signals, Progress(Percent(i, Len(exp.records))))
                        ELSE exp_signals
                  /\ i' = i + 1
                  /\ UNCHANGED epc
             ELSE /\ exp_signals' = Append(exp_signals, Error)
                  /\ epc' = "failed"
                  /\ UNCHANGED i
    /\ UNCHANGED <<exp, lines, cur>>
    /\ UNCHANGED <<input_vars, parser_vars, ui>>

\* exporters.py:210-221
GxFinish ==
    /\ epc = "gloop"
    /\ i = Len(exp.records)
    /\ out_file' = [out_file EXCEPT !.content = @ \o GesnSummaryLines(exp, exp_totals)]
    /\ exp_signals' = exp_signals \o <<Progress(100), Finished>>
    /\ epc' = "done"
    /\ UNCHANGED <<exp, lines, cur, i, exp_totals>>
    /\ UNCHANGED <<input_vars, parser_vars, ui>>

(***************************************************************************)
(* Specifications.                                                         *)
(***************************************************************************)
NoUi == [parse_handled |-> FALSE, _metadata |-> <<>>, _records |-> <<>>,
         _total_in_xml |-> 0, _parse_errors |-> 0]
NoExp == [metadata |-> CatalogMetadata(E, E), records |-> <<>>, total_in_xml |-> 0,
          parse_errors |-> 0, writable |-> TRUE]
NoFile == [exists |-> FALSE, content |-> <<>>]
NoTotals == [total_resources |-> 0, total_content_items |-> 0]
\* one parser instance only
NoParked == [forked |-> FALSE, solo |-> <<>>, other |-> <<>>, active |-> "A"]

InitParser ==
    /\ parked = NoParked
    /\ pc = "init"
    /\ pos = 1
    /\ xml_open = <<>>
    /\ xml_root_done = FALSE
    /\ total_resources = 0
    /\ records = <<>>
    /\ hierarchy_stack = <<>>
    /\ current_category_type = E
    /\ current_name_group_begin = E
    /\ parsed_count = 0
    /\ error_count = 0
    /\ signals = <<>>
    /\ delivered = <<>>

InitExporter ==
    /\ epc = "idle"
    /\ exp = NoExp
    /\ lines = <<>>
    /\ cur = NoTrackers
    /\ i = 0
    /\ exp_signals = <<>>
    /\ exp_totals = NoTotals
    /\ out_file = NoFile

\* a source file is parsed by the parser of its catalog, and the result of
\* an FSBC parse is exported
Init ==
    /\ \/ /\ worker = "fsbc"
          /\ metadata = CatalogMetadata(E, E)
          /\ \/ readable = TRUE /\ \E sh \in FsbcShapes : doc = FsbcDecode(sh)
             \/ readable = FALSE /\ doc = <<>>
       \/ /\ worker = "gesn"
          /\ metadata = GesnMetadata
          /\ \/ readable = TRUE /\ \E sh \in GesnShapes : doc = GesnDecode(sh)
             \/ readable = FALSE /\ doc = <<>>
    /\ ui = NoUi
    /\ InitParser
    /\ InitExporter

Next ==
    \/ XpRead
    \/ XpStartResourceCategory
    \/ XpStartSection
    \/ XpEndApprovingActNumber
    \/ XpEndApprovingActDate
    \/ XpEndResource
    \/ XpEndSection
    \/ XpOtherEvent
    \/ XpParseError
    \/ XpFinish
    \/ XgRead
    \/ XgStartBase
    \/ XgStartResourceCategory
    \/ XgStartSection
    \/ XgStartNameGroup
    \/ XgEndDecree
    \/ XgEndWork
    \/ XgEndNameGroup
    \/ XgEndSection
    \/ XgOtherEvent
    \/ XgParseError
    \/ XgFinish
    \/ OnParseFinished
    \/ OnExportClicked
    \/ ExpBegin
    \/ ExpRecord
    \/ ExpFinish

Spec == Init /\ [][Next]_vars

(***************************************************************************)
(* The FSBC exporter run on its own: MarkdownExporterWorker is constructed *)
(* with a list of records (exporters.py:16-24) and run.  The records are   *)
(* drawn with every combination of two categories and of an empty or       *)
(* non-empty code at each of the four levels, so that consecutive records  *)
(* agree and differ at every level.                                        *)
(***************************************************************************)
LevelCodes == {E, T("1")}

ExportRecord(cat, b, p, s, g, n) ==
    ResourceRecord(T(cat),
                   <<T("Kniga"), b, <<"b">> \o b>>, <<T("Chast"), p, <<"p">> \o p>>,
                   <<T("Razdel"), s, <<"s">> \o s>>, <<T("Gruppa"), g, <<"g">> \o g>>,
                   <<"R", Num(n)>>, <<"A", "|", "B", Num(n)>>, T("kg"),
                   <<"10", Num(n)>>, <<"9", Num(n)>>)

RECURSIVE ExportRecordSeqs(_)
\* the record lists of length at most n; a record carries its position
ExportRecordSeqs(n) ==
    IF n = 0 THEN {<<>>}
    ELSE LET shorter == ExportRecordSeqs(n - 1)
         IN  shorter \cup
             {Append(rs, ExportRecord(cat, b, p, s, g, n)) :
                 rs \in {x \in shorter : Len(x) = n - 1},
                 cat \in CategoryTypes, b \in LevelCodes, p \in LevelCodes,
                 s \in LevelCodes, g \in LevelCodes}

InitExport ==
    /\ worker = "fsbc"
    /\ readable = TRUE
    /\ doc = <<>>
    /\ metadata = CatalogMetadata(E, E)
    /\ ui = NoUi
    /\ InitParser
    /\ epc = "start"
    /\ \E rs \in ExportRecordSeqs(MaxRecs), w \in BOOLEAN :
          exp = [metadata |-> CatalogMetadata(T("N1"), T("D1")), records |-> rs,
                 total_in_xml |-> Len(rs) + 2, parse_errors |-> 2, writable |-> w]
    /\ lines = <<>>
    /\ cur = NoTrackers
    /\ i = 0
    /\ exp_signals = <<>>
    /\ exp_totals = NoTotals
    /\ out_file = NoFile

\* the FSBC exporter run on one record whose name is drawn from the texts
\* over a letter, the pipe and the backslash
NameChars == {"A", "|", "\\"}

NamedRecord(name) ==
    [ExportRecord("Materialy", T("1"), T("1"), T("1"), T("1"), 1) EXCEPT !.name = name]

InitNames ==
    /\ worker = "fsbc"
    /\ readable = TRUE
    /\ doc = <<>>
    /\ metadata = CatalogMetadata(E, E)
    /\ ui = NoUi
    /\ InitParser
    /\ epc = "start"
    /\ \E name \in SeqsUpTo(NameChars, MaxName), w \in BOOLEAN :
          exp = [metadata |-> CatalogMetadata(T("N1"), T("D1")),
                 records |-> <<NamedRecord(name)>>,
                 total_in_xml |-> 1, parse_errors |-> 0, writable |-> w]
    /\ lines = <<>>
    /\ cur = NoTrackers
    /\ i = 0
    /\ exp_signals = <<>>
    /\ exp_totals = NoTotals
    /\ out_file = NoFile

NextExport ==
    \/ ExpBegin
    \/ ExpRecord
    \/ ExpFinish

SpecExport == InitExport /\ [][NextExport]_vars

SpecNames == InitNames /\ [][NextExport]_vars

(***************************************************************************)
(* The FSBC exporter in an environment that can fail it: an exception      *)
(* raised while the lines are assembled in memory (exporters.py:28-109,    *)
(* for instance MemoryError in lines.append) and an exception raised by    *)
(* f.write or by closing the file after open() has succeeded               *)
(* (exporters.py:111-112).  Both are caught at exporters.py:117-118.       *)
(***************************************************************************)
\* an exception while the document is assembled, exporters.py:28-109, 117-118
ExpAssembleError ==
    /\ epc \in {"start", "loop"}
    /\ exp_signals' = Append(exp_signals, Error)
    /\ epc' = "failed"
    /\ UNCHANGED <<exp, lines, cur, i, exp_totals, out_file>>
    /\ UNCHANGED <<input_vars, parser_vars, ui>>

\* an exception after open() has truncated the destination,
\* exporters.py:111-112, 117-118: some beginning of the text has been written
ExpWriteError ==
    /\ epc = "loop"
    /\ i = Len(exp.records)
    /\ exp.writable
    /\ lines' = lines \o FsbcSummaryLines(exp)
    /\ \E n \in {0, 1} : out_file' = [exists |-> TRUE, content |-> SubSeq(lines', 1, n)]
    /\ exp_signals' = Append(exp_signals, Error)
    /\ epc' = "failed"
    /\ UNCHANGED <<exp, cur, i, exp_totals>>
    /\ UNCHANGED <<input_vars, parser_vars, ui>>

NextAssemble ==
    \/ ExpBegin
    \/ ExpRecord
    \/ ExpFinish
    \/ ExpAssembleError
    \/ ExpWriteError

SpecAssemble == InitExport /\ [][NextAssemble]_vars

(***************************************************************************)
(* The GESN exporter run on its own: GesnMarkdownExporterWorker is         *)
(* constructed with a list of records (exporters.py:129-139) and run.  The *)
(* records are drawn either as one record with every combination of       *)
(* hierarchy levels, or as a list of records that differ in their content  *)
(* items, resources, overhead and profit, and name.                        *)
(***************************************************************************)
Levels == {"sbornik", "otdel", "razdel", "podrazdel", "table"}

\* a record whose levels in L have a code and whose levels in named have a
\* name (the name of razdel has a pipe)
GesnExportRecord(L, named, items, res, nrsp, full, n) ==
    [sbornik_code |-> IF "sbornik" \in L THEN T("01") ELSE E,
     sbornik_name |-> IF "sbornik" \in named THEN T("Zemlya") ELSE E,
     otdel_code |-> IF "otdel" \in L THEN T("02") ELSE E,
     otdel_name |-> IF "otdel" \in named THEN T("Otd") ELSE E,
     razdel_code |-> IF "razdel" \in L THEN T("03") ELSE E,
     razdel_name |-> IF "razdel" \in named THEN <<"a", "|", "b">> ELSE E,
     podrazdel_code |-> IF "podrazdel" \in L THEN T("04") ELSE E,
     podrazdel_name |-> IF "podrazdel" \in named THEN T("Pod") ELSE E,
     table_code |-> IF "table" \in L THEN T("05") ELSE E,
     table_name |-> IF "table" \in named THEN T("Tab") ELSE E,
     name_group_begin |-> T("G"),
     code |-> <<"W", Num(n)>>,
     end_name |-> T("e"),
     measure_unit |-> T("m3"),
     full_name |-> full,
     content_items |-> items,
     resources |-> res,
     nr |-> nrsp[1],
     sp |-> nrsp[2]]

ItemTexts == {T("a"), <<"b", "|", "c">>}

\* resources: plain, with a pipe in the name, with a pipe in the unit
ExportResources ==
    {[code |-> T("1-1"), end_name |-> T("x"), quantity |-> T("1,5"), measure_unit |-> T("h")],
     [code |-> T("1-2"), end_name |-> <<"x", "|", "y">>, quantity |-> T("2"),
      measure_unit |-> T("h")],
     [code |-> T("1-3"), end_name |-> T("z"), quantity |-> T("3"),
      measure_unit |-> <<"m", "|", "s">>]}

PlainName == <<"G", " ", "e">>

\* one record for every combination of levels, one whose sbornik has a name
\* and no code, one whose levels have codes and no names
LevelRecords ==
    {GesnExportRecord(L, L, <<>>, <<>>, <<E, E>>, PlainName, 1) : L \in SUBSET Levels}
    \cup {GesnExportRecord({}, {"sbornik"}, <<>>, <<>>, <<E, E>>, PlainName, 1),
          GesnExportRecord(Levels, {}, <<>>, <<>>, <<E, E>>, PlainName, 1)}

\* the records that differ in their lists and texts
ListRecords(n) ==
    {GesnExportRecord({"sbornik"}, {"sbornik"}, items, <<>>, <<E, E>>, PlainName, n) :
        items \in SeqsUpTo(ItemTexts, 2)}
    \cup {GesnExportRecord({"table"}, {"table"}, <<T("a")>>, res, <<E, E>>, PlainName, n) :
        res \in SeqsUpTo(ExportResources, 2)}
    \cup {GesnExportRecord({}, {}, <<>>, <<>>, nrsp, PlainName, n) :
        nrsp \in {<<T("nr"), E>>, <<E, T("sp")>>, <<T("nr"), T("sp")>>}}
    \cup {GesnExportRecord({}, {}, <<>>, <<>>, <<E, E>>, <<"G", "|", "e">>, n)}

RECURSIVE GesnRecordSeqs(_)
\* the record lists of length at most n; a record carries its position
GesnRecordSeqs(n) ==
    IF n = 0 THEN {<<>>}
    ELSE LET shorter == GesnRecordSeqs(n - 1)
         IN  shorter \cup {Append(rs, w) : rs \in {x \in shorter : Len(x) = n - 1},
                                           w \in ListRecords(n)}

GesnExportMetadata ==
    [price_level |-> T("2022"), base_name |-> T("GESN"), decree_name |-> T("Prikaz"),
     category_type |-> T("Normy"), code_prefix |-> T("GESN")]

InitGesnExport ==
    /\ worker = "gesn"
    /\ readable = TRUE
    /\ doc = <<>>
    /\ metadata = GesnMetadata
    /\ ui = NoUi
    /\ InitParser
    /\ epc = "gstart"
    /\ \E rs \in GesnRecordSeqs(MaxRecs) \cup {<<w>> : w \in LevelRecords},
          w \in BOOLEAN :
          exp = [metadata |-> GesnExportMetadata, records |-> rs,
                 total_parsed |-> Len(rs) + 2, parse_errors |-> 2,
                 doc_title |-> T("GESN: Gosudarstvennye elementnye smetnye normy"),
                 writable |-> w]
    /\ lines = <<>>
    /\ cur = NoTrackers
    /\ i = 0
    /\ exp_signals = <<>>
    /\ exp_totals = NoTotals
    /\ out_file = NoFile

NextGesnExport ==
    \/ GxBegin
    \/ GxRecord
    \/ GxFinish

SpecGesnExport == InitGesnExport /\ [][NextGesnExport]_vars

(***************************************************************************)
(* The GESN parser run on a document of one NameGroup with one Work inside *)
(* it and one Work after it, the BeginName of the group and the EndName of *)
(* the Works drawn from the texts over a letter and the space.             *)
(***************************************************************************)
WorkNameChars == {"A", " "}

WorkDoc(begin, end_name) ==
    <<Start(RootTag, [PriceLevel |-> T("2022"), BaseName |-> T("GESN")]),
      Start("NameGroup", [BeginName |-> begin]),
      Leaf("Work", [Code |-> T("W1"), EndName |-> end_name, MeasureUnit |-> T("m3")],
           <<>>, E, TRUE),
      End("NameGroup"),
      Leaf("Work", [Code |-> T("W2"), EndName |-> end_name, MeasureUnit |-> T("m3")],
           <<>>, E, TRUE),
      End(RootTag)>>

InitWorks ==
    /\ worker = "gesn"
    /\ readable = TRUE
    /\ \E begin \in SeqsUpTo(WorkNameChars, MaxName),
          end_name \in SeqsUpTo(WorkNameChars, MaxName) : doc = WorkDoc(begin, end_name)
    /\ metadata = GesnMetadata
    /\ ui = NoUi
    /\ InitParser
    /\ InitExporter

NextWorks ==
    \/ XgRead
    \/ XgStartBase
    \/ XgStartNameGroup
    \/ XgEndWork
    \/ XgEndNameGroup
    \/ XgOtherEvent
    \/ XgFinish

SpecWorks == InitWorks /\ [][NextWorks]_vars

(***************************************************************************)
(* The GESN parser run on a document of one Work whose child elements are  *)
(* drawn: Content elements with Items (one Item with an empty Text),       *)
(* Resources elements with Resource children, and an element of another    *)
(* name that has an Item and a Resource below it.  A Work may have no, one *)
(* or several Content and Resources children.                              *)
(***************************************************************************)
WorkKidIds == {"Content.3", "Content.1", "Resources.2", "Resources.1", "Note"}

WorkKid(id) ==
    CASE id = "Content.3" ->
            El("Content", NoAttrs,
               <<El("Item", [Text |-> T("a")], <<>>),
                 El("Item", [Text |-> E], <<>>),
                 El("Item", [Text |-> T("b")], <<>>)>>)
      [] id = "Content.1" ->
            El("Content", NoAttrs, <<El("Item", [Text |-> T("c")], <<>>)>>)
      [] id = "Resources.2" ->
            El("Resources", NoAttrs,
               <<El("Resource", [Code |-> T("1-1"), EndName |-> T("x"),
                                 Quantity |-> T("1,5"), MeasureUnit |-> T("h")], <<>>),
                 El("Resource", [Code |-> T("1-2")], <<>>)>>)
      [] id = "Resources.1" ->
            El("Resources", NoAttrs,
               <<El("Resource", [Code |-> T("2-1"), Quantity |-> T("2")], <<>>)>>)
      [] id = "Note" ->
            El("Note", NoAttrs,
               <<El("Item", [Text |-> T("n")], <<>>),
                 El("Resource", [Code |-> T("9-9")], <<>>)>>)

KidsDoc(ids) ==
    <<Start(RootTag, [PriceLevel |-> T("2022"), BaseName |-> T("GESN")]),
      Leaf("Work", [Code |-> T("W1"), EndName |-> T("e"), MeasureUnit |-> T("m3")],
           [j \in 1..Len(ids) |-> WorkKid(ids[j])], E, TRUE),
      End(RootTag)>>

InitKids ==
    /\ worker = "gesn"
    /\ readable = TRUE
    /\ \E ids \in SeqsUpTo(WorkKidIds, MaxKids) : doc = KidsDoc(ids)
    /\ metadata = GesnMetadata
    /\ ui = NoUi
    /\ InitParser
    /\ InitExporter

NextKids ==
    \/ XgRead
    \/ XgStartBase
    \/ XgEndWork
    \/ XgOtherEvent
    \/ XgFinish

SpecKids == InitKids /\ [][NextKids]_vars

(***************************************************************************)
(* Both parsers run on the well-nested documents of Sections of two        *)
(* recognized type labels and of a type label that no branch of            *)
(* parsers.py:80-87 and no key of SECTION_TYPE_MAP matches, in every       *)
(* nesting, with leaves inside and between them.                           *)
(***************************************************************************)
FsbcLabelled ==
    {WrapShape(f) : f \in Forest({"Kniga", "Gruppa", "Prochee"}, {"R"},
                                 MaxSections, MaxLeaves)}
GesnLabelled ==
    {WrapShape(f) : f \in Forest({"Sbornik", "Tablica", "Prochee"}, {"W"},
                                 MaxSections, MaxLeaves)}

InitLabels ==
    /\ readable = TRUE
    /\ \/ /\ worker = "fsbc"
          /\ metadata = CatalogMetadata(E, E)
          /\ \E sh \in FsbcLabelled : doc = FsbcDecode(sh)
       \/ /\ worker = "gesn"
          /\ metadata = GesnMetadata
          /\ \E sh \in GesnLabelled : doc = GesnDecode(sh)
    /\ ui = NoUi
    /\ InitParser
    /\ InitExporter

NextLabels ==
    \/ XpRead
    \/ XpStartSection
    \/ XpEndResource
    \/ XpEndSection
    \/ XpOtherEvent
    \/ XpFinish
    \/ XgRead
    \/ XgStartBase
    \/ XgStartSection
    \/ XgEndWork
    \/ XgEndSection
    \/ XgOtherEvent
    \/ XgFinish

SpecLabels == InitLabels /\ [][NextLabels]_vars

(***************************************************************************)
(* One tab of the window with its workers: the FSBC tab of MainWindow      *)
(* (main_window.py:267-360) or a tab of GesnTabController                  *)
(* (main_window.py:79-184; its fields metadata, records, total_parsed and  *)
(* parse_errors are kept under the names of the FSBC tab).  A button is    *)
(* clicked only while it is enabled (Qt delivers no click of a disabled    *)
(* button, and the file dialog is modal).  A notification of a worker is   *)
(* queued to the window and handled there later, in the order of emission: *)
(* ui.seen and ui.eseen count the notifications of the parsers and of the  *)
(* exporters of the tab that have been handled.  Every load constructs a   *)
(* new parser and every export a new exporter.                             *)
(***************************************************************************)
\* the files that can be chosen in the dialog: with a record, without one,
\* damaged after its first leaf, and not readable
TabDocs(w) ==
    {[readable |-> TRUE, doc |-> d] :
        d \in IF w = "fsbc"
              THEN {FsbcDecode(WrapShape(<<"R">>)), FsbcDecode(WrapShape(<<"R.0">>)),
                    FsbcDecode(<<"<base", "R", "bad">>)}
              ELSE {GesnDecode(WrapShape(<<"W">>)), GesnDecode(WrapShape(<<>>)),
                    GesnDecode(<<"<base", "W", "bad">>)}}
    \cup {[readable |-> FALSE, doc |-> <<>>]}

\* main_window.py:196-201, 239-249 (29-34, 49-60)
TabUi ==
    [load_enabled |-> TRUE, export_enabled |-> FALSE, progress_visible |-> FALSE,
     progress_value |-> 0, status |-> "ready",
     _metadata |-> <<>>, _records |-> <<>>, _total_in_xml |-> 0, _parse_errors |-> 0,
     seen |-> 0, eseen |-> 0, loads |-> 0, exports |-> 0]

\* faulty variant: a load leaves the export button as it is
TabLoadClicked_ExportStaysEnabled ==
    /\ ui.load_enabled
    /\ ui.loads < MaxLoads
    /\ \/ UNCHANGED vars
       \/ /\ \E f \in TabDocs(worker) : doc' = f.doc /\ readable' = f.readable
          /\ ui' = [ui EXCEPT !.load_enabled = FALSE,
                              !.progress_value = 0, !.progress_visible = TRUE,
                              !.status = "loading", !.loads = @ + 1]
          /\ pc' = "init"
          /\ pos' = 1
          /\ xml_open' = <<>>
          /\ xml_root_done' = FALSE
          /\ UNCHANGED <<total_resources, metadata, records, hierarchy_stack,
                         current_category_type, current_name_group_begin, parsed_count,
                         error_count, signals, delivered>>
          /\ UNCHANGED <<worker, parked, export_vars>>

\* main_window.py:267-285 (79-99); the dialog may be cancelled
TabLoadClicked ==
    /\ ui.load_enabled
    /\ ui.loads < MaxLoads
    /\ \/ UNCHANGED vars
       \/ /\ \E f \in TabDocs(worker) : doc' = f.doc /\ readable' = f.readable
          /\ ui' = [ui EXCEPT !.load_enabled = FALSE, !.export_enabled = FALSE,
                              !.progress_value = 0, !.progress_visible = TRUE,
                              !.status = "loading", !.loads = @ + 1]
          /\ pc' = "init"
          /\ pos' = 1
          /\ xml_open' = <<>>
          /\ xml_root_done' = FALSE
          /\ UNCHANGED <<total_resources, metadata, records, hierarchy_stack,
                         current_category_type, current_name_group_begin, parsed_count,
                         error_count, signals, delivered>>
          /\ UNCHANGED <<worker, parked, export_vars>>

\* main_window.py:287-288 (101-102)
TabOnParseProgress ==
    /\ ui.seen < Len(signals)
    /\ signals[ui.seen + 1].sig = "progress"
    /\ ui' = [ui EXCEPT !.seen = @ + 1, !.progress_value = signals[ui.seen + 1].value]
    /\ UNCHANGED <<input_vars, parser_vars, export_vars>>

\* the arguments of the finished notification that is the n-th notification
\* of the parsers
FinishedArgs(n) ==
    delivered[Len(SelectSeq(SubSeq(signals, 1, n), LAMBDA x : x = Finished))]

\* main_window.py:290-310 (103-123)
TabOnParseFinished ==
    /\ ui.seen < Len(signals)
    /\ signals[ui.seen + 1] = Finished
    /\ ui' = [ui EXCEPT !.seen = @ + 1,
                        !._metadata = <<FinishedArgs(ui.seen + 1).metadata>>,
                        !._records = FinishedArgs(ui.seen + 1).records,
                        !._total_in_xml = FinishedArgs(ui.seen + 1).total,
                        !._parse_errors = FinishedArgs(ui.seen + 1).errors,
                        !.progress_visible = FALSE,
                        !.load_enabled = TRUE, !.export_enabled = TRUE,
                        !.status = "loaded"]
    /\ UNCHANGED <<input_vars, parser_vars, export_vars>>

\* faulty variant: a failed load enables the export button as well
TabOnParseError_EnablesExport ==
    /\ ui.seen < Len(signals)
    /\ signals[ui.seen + 1] = Error
    /\ ui' = [ui EXCEPT !.seen = @ + 1, !.progress_visible = FALSE,
                        !.load_enabled = TRUE, !.export_enabled = TRUE,
                        !.status = "load error"]
    /\ UNCHANGED <<input_vars, parser_vars, export_vars>>

\* main_window.py:312-316 (125-129)
TabOnParseError ==
    /\ ui.seen < Len(signals)
    /\ signals[ui.seen + 1] = Error
    /\ ui' = [ui EXCEPT !.seen = @ + 1, !.progress_visible = FALSE,
                        !.load_enabled = TRUE, !.status = "load error"]
    /\ UNCHANGED <<input_vars, parser_vars, export_vars>>

\* the arguments the exporter is constructed with, main_window.py:336-339
\* (148-152); writable: whether the destination chosen can be written
TabExportArgs(w) ==
    IF worker = "fsbc"
    THEN [metadata |-> ui._metadata[1], records |-> ui._records,
          total_in_xml |-> ui._total_in_xml, parse_errors |-> ui._parse_errors,
          writable |-> w]
    ELSE [metadata |-> ui._metadata[1], records |-> ui._records,
          total_parsed |-> ui._total_in_xml, parse_errors |-> ui._parse_errors,
          writable |-> w, doc_title |-> T("GESN")]

\* faulty variant: the export starts whatever is stored
TabExportClicked_NoGuard ==
    /\ ui.export_enabled
    /\ ui.exports < MaxExports
    /\ ui._metadata # <<>>
    /\ \/ UNCHANGED vars
       \/ /\ \E w \in BOOLEAN : exp' = TabExportArgs(w)
          /\ ui' = [ui EXCEPT !.load_enabled = FALSE, !.export_enabled = FALSE,
                              !.progress_value = 0, !.progress_visible = TRUE,
                              !.status = "exporting", !.exports = @ + 1]
          /\ epc' = IF worker = "fsbc" THEN "start" ELSE "gstart"
          /\ out_file' = NoFile
          /\ UNCHANGED <<lines, cur, i, exp_signals, exp_totals>>
          /\ UNCHANGED <<input_vars, parser_vars>>

\* main_window.py:320-343 (133-159); the dialog may be cancelled, and the
\* destination chosen in it may or may not be writable
TabExportClicked ==
    /\ ui.export_enabled
    /\ ui.exports < MaxExports
    /\ IF ui._records = <<>> \/ ui._metadata = <<>>
       THEN UNCHANGED vars
       ELSE \/ UNCHANGED vars
            \/ /\ \E w \in BOOLEAN : exp' = TabExportArgs(w)
               /\ ui' = [ui EXCEPT !.load_enabled = FALSE, !.export_enabled = FALSE,
                                   !.progress_value = 0, !.progress_visible = TRUE,
                                   !.status = "exporting", !.exports = @ + 1]
               /\ epc' = IF worker = "fsbc" THEN "start" ELSE "gstart"
               /\ out_file' = NoFile
               /\ UNCHANGED <<lines, cur, i, exp_signals, exp_totals>>
               /\ UNCHANGED <<input_vars, parser_vars>>

\* main_window.py:345-346 (161-162)
TabOnExportProgress ==
    /\ ui.eseen < Len(exp_signals)
    /\ exp_signals[ui.eseen + 1].sig = "progress"
    /\ ui' = [ui EXCEPT !.eseen = @ + 1,
                        !.progress_value = exp_signals[ui.eseen + 1].value]
    /\ UNCHANGED <<input_vars, parser_vars, export_vars>>

\* main_window.py:348-353 (164-177)
TabOnExportFinished ==
    /\ ui.eseen < Len(exp_signals)
    /\ exp_signals[ui.eseen + 1] = Finished
    /\ ui' = [ui EXCEPT !.eseen = @ + 1, !.progress_visible = FALSE,
                        !.load_enabled = TRUE, !.export_enabled = TRUE,
                        !.status = "exported"]
    /\ UNCHANGED <<input_vars, parser_vars, export_vars>>

\* main_window.py:355-360 (179-184)
TabOnExportError ==
    /\ ui.eseen < Len(exp_signals)
    /\ exp_signals[ui.eseen + 1] = Error
    /\ ui' = [ui EXCEPT !.eseen = @ + 1, !.progress_visible = FALSE,
                        !.load_enabled = TRUE, !.export_enabled = TRUE,
                        !.status = "export error"]
    /\ UNCHANGED <<input_vars, parser_vars, export_vars>>

\* the tab as constructed: no file chosen and no worker yet
InitTab ==
    /\ worker \in {"fsbc", "gesn"}
    /\ readable = FALSE
    /\ doc = <<>>
    /\ ui = TabUi
    /\ parked = NoParked
    /\ pc = "idle"
    /\ pos = 1
    /\ xml_open = <<>>
    /\ xml_root_done = FALSE
    /\ total_resources = 0
    /\ metadata = IF worker = "fsbc" THEN CatalogMetadata(E, E) ELSE GesnMetadata
    /\ records = <<>>
    /\ hierarchy_stack = <<>>
    /\ current_category_type = E
    /\ current_name_group_begin = E
    /\ parsed_count = 0
    /\ error_count = 0
    /\ signals = <<>>
    /\ delivered = <<>>
    /\ InitExporter

NextTab ==
    \/ TabLoadClicked
    \/ XpRead
    \/ XpEndResource
    \/ XpOtherEvent
    \/ XpParseError
    \/ XpFinish
    \/ XgRead
    \/ XgStartBase
    \/ XgEndWork
    \/ XgOtherEvent
    \/ XgParseError
    \/ XgFinish
    \/ TabOnParseProgress
    \/ TabOnParseFinished
    \/ TabOnParseError
    \/ TabExportClicked
    \/ ExpBegin
    \/ ExpRecord
    \/ ExpFinish
    \/ GxBegin
    \/ GxRecord
    \/ GxFinish
    \/ TabOnExportProgress
    \/ TabOnExportFinished
    \/ TabOnExportError

SpecTab == InitTab /\ [][NextTab]_vars

(***************************************************************************)
(* The four workers run on inputs that make them report progress: each     *)
(* parser on a document of as many leaves as its progress interval, of     *)
(* which the start tag of the first few is written with a space after the  *)
(* element name ("<Resource ", which the count before the parse looks for) *)
(* and that of the others with a line break after it; the GESN parser also *)
(* on the documents of one NameGroup; each exporter on at most one record. *)
(***************************************************************************)
SpacedCounts(every) == {0, every \div 2, every}

LongFsbcDoc(spaced) ==
    <<Start(RootTag, NoAttrs)>>
    \o [j \in 1..ProgressEvery |->
            Leaf("Resource", [Code |-> T("R"), Name |-> T("N"), MeasureUnit |-> T("kg")],
                 <<PriceEl(T("10"), E)>>, E, j <= spaced)]
    \o <<End(RootTag)>>

LongGesnDoc(spaced) ==
    <<Start(RootTag, [PriceLevel |-> T("2022"), BaseName |-> T("GESN")])>>
    \o [j \in 1..GesnProgressEvery |->
            Leaf("Work", [Code |-> T("W"), EndName |-> T("e"), MeasureUnit |-> T("m3")],
                 <<>>, E, j <= spaced)]
    \o <<End(RootTag)>>

InitLong ==
    /\ readable = TRUE
    /\ \/ /\ worker = "fsbc"
          /\ metadata = CatalogMetadata(E, E)
          /\ \E spaced \in SpacedCounts(ProgressEvery) : doc = LongFsbcDoc(spaced)
       \/ /\ worker = "gesn"
          /\ metadata = GesnMetadata
          /\ \E spaced \in SpacedCounts(GesnProgressEvery) : doc = LongGesnDoc(spaced)
    /\ ui = NoUi
    /\ InitParser
    /\ InitExporter

InitRuns ==
    \/ InitLong
    \/ InitWorks
    \/ InitExport /\ Len(exp.records) <= 1
    \/ InitGesnExport /\ Len(exp.records) <= 1

NextRuns ==
    \/ XpRead
    \/ XpEndResource
    \/ XpOtherEvent
    \/ XpParseError
    \/ XpFinish
    \/ XgRead
    \/ XgStartBase
    \/ XgStartNameGroup
    \/ XgEndWork
    \/ XgEndNameGroup
    \/ XgOtherEvent
    \/ XgParseError
    \/ XgFinish
    \/ ExpBegin
    \/ ExpRecord
    \/ ExpFinish
    \/ GxBegin
    \/ GxRecord
    \/ GxFinish

SpecRuns == InitRuns /\ [][NextRuns]_vars

(***************************************************************************)
(* A parser run twice on the same file.  The window constructs a worker    *)
(* for the chosen path at every load (main_window.py:281 and 97 of the     *)
(* GESN tab) and the worker keeps nothing but the path (parsers.py:22-24,  *)
(* 137-139), so a second run starts run() anew on the same bytes: the      *)
(* tokenizer starts at the first byte, and the variables of run() hold     *)
(* whatever the first run left until run() assigns them.                   *)
(***************************************************************************)
\* the runs that have ended, by finished or by error
RunsEnded == Count(signals, LAMBDA x : x.sig \in {"finished", "error"})

Rerun ==
    /\ pc \in {"done", "failed"}
    /\ RunsEnded < MaxRuns
    /\ pc' = "init"
    /\ pos' = 1
    /\ xml_open' = <<>>
    /\ xml_root_done' = FALSE
    /\ UNCHANGED <<total_resources, metadata, records, hierarchy_stack,
                   current_category_type, current_name_group_begin, parsed_count,
                   error_count, signals, delivered>>
    /\ UNCHANGED <<input_vars, ui, export_vars>>

NextRerun ==
    \/ XpRead
    \/ XpStartResourceCategory
    \/ XpStartSection
    \/ XpEndApprovingActNumber
    \/ XpEndApprovingActDate
    \/ XpEndResource
    \/ XpEndSection
    \/ XpOtherEvent
    \/ XpParseError
    \/ XpFinish
    \/ XgRead
    \/ XgStartBase
    \/ XgStartResourceCategory
    \/ XgStartSection
    \/ XgStartNameGroup
    \/ XgEndDecree
    \/ XgEndWork
    \/ XgEndNameGroup
    \/ XgEndSection
    \/ XgOtherEvent
    \/ XgParseError
    \/ XgFinish
    \/ Rerun

\* the documents of at most MaxRerunDoc tokens, and the file that cannot be read
InitRerun == Init /\ Len(doc) <= MaxRerunDoc

SpecRerun == InitRerun /\ [][NextRerun]_vars

(***************************************************************************)
(* Two parser instances at the same time.  Each tab constructs its own     *)
(* worker for the path chosen (main_window.py:94-98, 281-285); the two     *)
(* GESN tabs are two controllers (main_window.py:204-213).  Everything     *)
(* run() works on is a local variable of the call (parsers.py:28-41,       *)
(* 143-156) and the worker keeps the path only, so an instance is its      *)
(* input and the variables of its run().  The variables of the module are  *)
(* those of the instance that takes steps; the other instance is parked,   *)
(* and a switch of threads exchanges the two.  First one instance runs     *)
(* alone; then a new instance on the same file runs together with an       *)
(* instance on another file, and, in these runs, an FSBC exporter as well. *)
(***************************************************************************)
PairDocs ==
    {<<"fsbc", FsbcDecode(WrapShape(sh))>> :
        sh \in {<<"Kniga", "R", "/Section">>, <<"Chast", "R.0", "R", "/Section">>,
                <<"R", "Materialy", "/ResourceCategory">>, <<"R", "bad">>}}
    \cup {<<"gesn", GesnDecode(WrapShape(sh))>> :
        sh \in {<<"Sbornik", "W", "/Section">>, <<"NameGroup", "W.e", "/NameGroup">>,
                <<"Decree", "W.tab">>}}

\* the instance that takes steps: its input and the variables of its run()
Context ==
    [doc |-> doc, readable |-> readable, worker |-> worker, pc |-> pc, pos |-> pos,
     xml_open |-> xml_open, xml_root_done |-> xml_root_done,
     total_resources |-> total_resources, metadata |-> metadata, records |-> records,
     hierarchy_stack |-> hierarchy_stack, current_category_type |-> current_category_type,
     current_name_group_begin |-> current_name_group_begin, parsed_count |-> parsed_count,
     error_count |-> error_count, signals |-> signals, delivered |-> delivered]

\* a worker constructed for a file and not started yet
NewWorker(w, d) ==
    [doc |-> d, readable |-> TRUE, worker |-> w, pc |-> "init", pos |-> 1,
     xml_open |-> <<>>, xml_root_done |-> FALSE, total_resources |-> 0,
     metadata |-> IF w = "fsbc" THEN CatalogMetadata(E, E) ELSE GesnMetadata,
     records |-> <<>>, hierarchy_stack |-> <<>>, current_category_type |-> E,
     current_name_group_begin |-> E, parsed_count |-> 0, error_count |-> 0,
     signals |-> <<>>, delivered |-> <<>>]

\* faulty variant: the context stack is one list that the instances share
Resume_SharedStack(c) ==
    /\ doc' = c.doc
    /\ readable' = c.readable
    /\ worker' = c.worker
    /\ pc' = c.pc
    /\ pos' = c.pos
    /\ xml_open' = c.xml_open
    /\ xml_root_done' = c.xml_root_done
    /\ total_resources' = c.total_resources
    /\ metadata' = c.metadata
    /\ records' = c.records
    /\ UNCHANGED hierarchy_stack
    /\ current_category_type' = c.current_category_type
    /\ current_name_group_begin' = c.current_name_group_begin
    /\ parsed_count' = c.parsed_count
    /\ error_count' = c.error_count
    /\ signals' = c.signals
    /\ delivered' = c.delivered

\* the instance c takes the steps from now on
Resume(c) ==
    /\ doc' = c.doc
    /\ readable' = c.readable
    /\ worker' = c.worker
    /\ pc' = c.pc
    /\ pos' = c.pos
    /\ xml_open' = c.xml_open
    /\ xml_root_done' = c.xml_root_done
    /\ total_resources' = c.total_resources
    /\ metadata' = c.metadata
    /\ records' = c.records
    /\ hierarchy_stack' = c.hierarchy_stack
    /\ current_category_type' = c.current_category_type
    /\ current_name_group_begin' = c.current_name_group_begin
    /\ parsed_count' = c.parsed_count
    /\ error_count' = c.error_count
    /\ signals' = c.signals
    /\ delivered' = c.delivered

\* the thread of the other instance is scheduled
Switch ==
    /\ parked.forked
    /\ Resume(parked.other[1])
    /\ parked' = [parked EXCEPT !.other = <<Context>>,
                                !.active = IF @ = "A" THEN "B" ELSE "A"]
    /\ UNCHANGED <<ui, export_vars>>

\* after the run of the first instance: a load in two tabs, of the same file
\* again (instance A) and of another file (instance B), and an export of at
\* most one record
StartPair ==
    /\ ~parked.forked
    /\ pc \in {"done", "failed"}
    /\ \E p \in PairDocs :
          parked' = [forked |-> TRUE, solo |-> <<Context>>,
                     other |-> <<NewWorker(p[1], p[2])>>, active |-> "A"]
    /\ Resume(NewWorker(worker, doc))
    /\ epc' = "start"
    /\ \E rs \in {<<>>, <<ExportRecord("Materialy", T("1"), T("1"), T("1"), T("1"), 1)>>} :
          exp' = [metadata |-> CatalogMetadata(T("N1"), T("D1")), records |-> rs,
                  total_in_xml |-> Len(rs), parse_errors |-> 0, writable |-> TRUE]
    /\ UNCHANGED <<ui, lines, cur, i, exp_signals, exp_totals, out_file>>

InitPair ==
    /\ readable = TRUE
    /\ \E p \in PairDocs :
          /\ worker = p[1]
          /\ doc = p[2]
          /\ metadata = IF p[1] = "fsbc" THEN CatalogMetadata(E, E) ELSE GesnMetadata
    /\ ui = NoUi
    /\ InitParser
    /\ InitExporter

NextPair ==
    \/ XpRead
    \/ XpStartResourceCategory
    \/ XpStartSection
    \/ XpEndResource
    \/ XpEndSection
    \/ XpOtherEvent
    \/ XpParseError
    \/ XpFinish
    \/ XgRead
    \/ XgStartBase
    \/ XgStartSection
    \/ XgStartNameGroup
    \/ XgEndDecree
    \/ XgEndWork
    \/ XgEndNameGroup
    \/ XgEndSection
    \/ XgOtherEvent
    \/ XgFinish
    \/ StartPair
    \/ Switch
    \/ ExpBegin
    \/ ExpRecord
    \/ ExpFinish

SpecPair == InitPair /\ [][NextPair]_vars

(***************************************************************************)
(* The other FSBC parser of the repository: XmlParserWorker of             *)
(* src/main.py (main.py:51-143), the single-file version of the            *)
(* application.  Its run() is given the file that the XmlParserWorker of   *)
(* parsers.py has been run on: the instance of parsers.py runs first and   *)
(* is parked when it has ended, then the instance of main.py (worker =     *)
(* "main") takes the steps.  run() of main.py has no error_count, and its  *)
(* finished notification carries the metadata and the records only         *)
(* (main.py:53, 140).                                                      *)
(***************************************************************************)
\* main.py:61-76, and 142-143 when the file cannot be read
MxRead ==
    /\ worker = "main"
    /\ pc = "init"
    /\ IF readable
       THEN /\ pc' = "loop"
            /\ total_resources' = FsbcTotal(doc)
            /\ metadata' = CatalogMetadata(E, E)
            /\ records' = <<>>
            /\ hierarchy_stack' = <<>>
            /\ current_category_type' = E
            /\ parsed_count' = 0
            /\ UNCHANGED signals
       ELSE /\ pc' = "failed"
            /\ signals' = Append(signals, Error)
            /\ UNCHANGED <<total_resources, metadata, records, hierarchy_stack,
                           current_category_type, parsed_count>>
    /\ UNCHANGED <<pos, xml_open, xml_root_done, current_name_group_begin, error_count,
                   delivered>>
    /\ UNCHANGED <<input_vars, ui, export_vars>>

\* a "start" event, main.py:79-85
MxStartEvent ==
    /\ worker = "main"
    /\ AtToken
    /\ TokenOk(Tok)
    /\ Tok.k = "start"
    /\ current_category_type' = IF Tok.tag = "ResourceCategory" THEN Get(Tok.a, "Type")
                                ELSE current_category_type
    /\ hierarchy_stack' =
          IF Tok.tag = "Section"
          THEN Append(hierarchy_stack,
                      <<Get(Tok.a, "Type"), Get(Tok.a, "Code"), Get(Tok.a, "Name")>>)
          ELSE hierarchy_stack
    /\ Advance
    /\ UNCHANGED <<pc, total_resources, metadata, records, current_name_group_begin,
                   parsed_count, error_count, signals, delivered>>
    /\ UNCHANGED <<input_vars, ui, export_vars>>

\* the record of a Resource element, main.py:93-127: no Resource is rejected,
\* and a Resource without a Price has an empty cost and wholesale cost
MainRecord(t, stack, category) ==
    LET h == FsbcHierarchy(stack)
        price_elem == FindDeep(t.kids, "Price")
        cost == IF price_elem # <<>> THEN Get(price_elem[1].a, "Cost") ELSE E
        opt_cost == IF price_elem # <<>> THEN Get(price_elem[1].a, "OptCost") ELSE E
    IN  ResourceRecord(category, h.book, h.part, h.section, h.group,
                       Get(t.a, "Code"), Get(t.a, "Name"), Get(t.a, "MeasureUnit"),
                       cost, opt_cost)

\* the "end" event of a Resource, main.py:92-132
MxEndResource ==
    /\ OnEvent("main", {"leaf"}, "Resource")
    /\ records' = Append(records, MainRecord(Tok, hierarchy_stack, current_category_type))
    /\ parsed_count' = parsed_count + 1
    /\ signals' = IF parsed_count' % ProgressEvery = 0
                  THEN Append(signals, Progress(Percent(parsed_count', total_resources)))
                  ELSE signals
    /\ Advance
    /\ UNCHANGED <<pc, total_resources, metadata, hierarchy_stack, current_category_type,
                   current_name_group_begin, error_count, delivered>>
    /\ UNCHANGED <<input_vars, ui, export_vars>>

\* the "end" event of any other element, main.py:87-91, 134-137
MxEndEvent ==
    /\ worker = "main"
    /\ AtToken
    /\ TokenOk(Tok)
    /\ Tok.k \in {"leaf", "end"}
    /\ ~(Tok.k = "leaf" /\ Tok.tag = "Resource")
    /\ metadata' =
          IF Tok.k = "leaf" /\ Tok.tag = "ApprovingActNumber"
          THEN [metadata EXCEPT !.approving_act_number = Tok.text]
          ELSE IF Tok.k = "leaf" /\ Tok.tag = "ApprovingActDate"
               THEN [metadata EXCEPT !.approving_act_date = Tok.text]
               ELSE metadata
    /\ hierarchy_stack' =
          IF Tok.k = "end" /\ Tok.tag = "Section" /\ hierarchy_stack # <<>>
          THEN Front(hierarchy_stack)
          ELSE hierarchy_stack
    /\ Advance
    /\ UNCHANGED <<pc, total_resources, records, current_category_type,
                   current_name_group_begin, parsed_count, error_count, signals,
                   delivered>>
    /\ UNCHANGED <<input_vars, ui, export_vars>>

\* ET.iterparse raises (main.py:78), caught at main.py:142-143
MxParseError ==
    /\ worker = "main"
    /\ pc = "loop"
    /\ IF pos <= Len(doc) THEN ~TokenOk(Tok) ELSE ~xml_root_done
    /\ pc' = "failed"
    /\ signals' = Append(signals, Error)
    /\ UNCHANGED <<pos, xml_open, xml_root_done, total_resources, metadata, records,
                   hierarchy_stack, current_category_type, current_name_group_begin,
                   parsed_count, error_count, delivered>>
    /\ UNCHANGED <<input_vars, ui, export_vars>>

\* main.py:139-140
MxFinish ==
    /\ worker = "main"
    /\ pc = "loop"
    /\ pos > Len(doc)
    /\ xml_root_done
    /\ pc' = "done"
    /\ signals' = signals \o <<Progress(100), Finished>>
    /\ delivered' = Append(delivered, [metadata |-> metadata, records |-> records])
    /\ UNCHANGED <<pos, xml_open, xml_root_done, total_resources, metadata, records,
                   hierarchy_stack, current_category_type, current_name_group_begin,
                   parsed_count, error_count>>
    /\ UNCHANGED <<input_vars, ui, export_vars>>

\* the run of parsers.py has ended: a worker of main.py is constructed for
\* the same file (main.py:56-58) and started
StartTwin ==
    /\ worker = "fsbc"
    /\ ~parked.forked
    /\ pc \in {"done", "failed"}
    /\ parked' = [forked |-> TRUE, solo |-> <<Context>>, other |-> <<>>, active |-> "A"]
    /\ Resume([NewWorker("main", doc) EXCEPT !.readable = readable,
                                              !.metadata = CatalogMetadata(E, E)])
    /\ UNCHANGED <<ui, export_vars>>

\* the files the two parsers are run on: every document of at most MaxFlat
\* elements that are Resource variants or metadata elements, the scenario
\* documents, documents with a category and sections around Resources of
\* which one is rejected by parsers.py, a damaged document, and a file that
\* cannot be read
TwinDocs ==
    {[readable |-> TRUE, doc |-> FsbcDecode(sh)] :
        sh \in FsbcFlat \cup FsbcScenario
                \cup {WrapShape(<<"Materialy", "Kniga", "R.0", "/Section", "R",
                                  "/ResourceCategory", "R.c">>),
                      WrapShape(<<"Number", "Date", "Kniga", "Gruppa", "R.n", "/Section",
                                  "R.2", "/Section">>),
                      <<"<base", "R", "bad">>, <<"<base", "R.0">>}}
    \cup {[readable |-> FALSE, doc |-> <<>>]}

InitTwin ==
    /\ worker = "fsbc"
    /\ \E f \in TwinDocs : doc = f.doc /\ readable = f.readable
    /\ metadata = CatalogMetadata(E, E)
    /\ ui = NoUi
    /\ InitParser
    /\ InitExporter

NextTwin ==
    \/ XpRead
    \/ XpStartResourceCategory
    \/ XpStartSection
    \/ XpEndApprovingActNumber
    \/ XpEndApprovingActDate
    \/ XpEndResource
    \/ XpEndSection
    \/ XpOtherEvent
    \/ XpParseError
    \/ XpFinish
    \/ StartTwin
    \/ MxRead
    \/ MxStartEvent
    \/ MxEndResource
    \/ MxEndEvent
    \/ MxParseError
    \/ MxFinish

SpecTwin == InitTwin /\ [][NextTwin]_vars

(***************************************************************************)
(* Reading a document independently of the parsers: which Sections are     *)
(* open at a place of the document, and whether it is well-formed.         *)
(***************************************************************************)
IsSectionStart(t) == t.k = "start" /\ t.tag = "Section"
IsSectionEnd(t) == t.k = "end" /\ t.tag = "Section"
IsLeaf(t, tag) == t.k = "leaf" /\ t.tag = tag

\* the Section opened at a has not been closed before p
OpenAt(a, p) ==
    /\ a < p
    /\ IsSectionStart(doc[a])
    /\ \A b \in (a + 1)..(p - 1) :
          Count(SubSeq(doc, a + 1, b), IsSectionEnd)
              <= Count(SubSeq(doc, a + 1, b), IsSectionStart)

\* <<Code, Name>> of the nearest Section of type ty that encloses place p,
\* and <<"", "">> when there is none
NearestEnclosing(p, ty) ==
    LET S == {a \in 1..(p - 1) : OpenAt(a, p) /\ doc[a].a.Type = T(ty)}
    IN  IF S = {} THEN <<E, E>>
        ELSE LET a == CHOOSE x \in S : \A y \in S : y <= x
             IN  <<doc[a].a.Code, doc[a].a.Name>>

\* the place of the leaf with that Code (the Codes of the leaves of a
\* document differ, since every leaf carries its position number)
LeafPos(tag, code) ==
    CHOOSE p \in 1..Len(doc) : IsLeaf(doc[p], tag) /\ doc[p].a.Code = code

RECURSIVE WellNested(_, _, _)
\* the tokens d are a well-formed document: no bad bytes, every close tag
\* matches the open element, one document element, nothing open at the end
WellNested(d, open, rootdone) ==
    IF d = <<>> THEN rootdone /\ open = <<>>
    ELSE LET t == Head(d)
         IN  CASE t.k = "bad" -> FALSE
               [] t.k = "start" -> ~rootdone /\ WellNested(Tail(d), <<t.tag>> \o open, FALSE)
               [] t.k = "leaf" -> ~rootdone /\ WellNested(Tail(d), open, open = <<>>)
               [] t.k = "end" -> /\ open # <<>>
                                 /\ Head(open) = t.tag
                                 /\ WellNested(Tail(d), Tail(open), Len(open) = 1)

WellFormed == WellNested(doc, <<>>, FALSE)

Result == delivered[1]

(***************************************************************************)
(* C1.  For every well-formed FSBC input on which XmlParserWorker.run      *)
(* completes, the number of records delivered plus the error count         *)
(* delivered equals the candidate count delivered with them.               *)
(* The parser delivers the pre-scan count of "<Resource " (at least 1),    *)
(* not the number of Resource close events, so this does not hold.         *)
(***************************************************************************)
C1_RecordsPlusErrorsIsCandidateCount ==
    (worker = "fsbc" /\ pc = "done")
        => Len(Result.records) + Result.errors = Result.total

\* the element of the leaf token t has a Price element somewhere below it
HasPriceDescendant(t) ==
    \E j \in 1..Len(Descendants(t.kids)) : Descendants(t.kids)[j].tag = "Price"

\* a step in which the FSBC parser handles the close event of a Resource
ResourceCloses ==
    /\ worker = "fsbc"
    /\ pc = "loop"
    /\ pos' = pos + 1
    /\ IsLeaf(doc[pos], "Resource")

\* what such a step does to the record list and to the error count
C2_Step ==
    ResourceCloses =>
        IF doc[pos].a.Code # E /\ doc[pos].a.Name # E /\ HasPriceDescendant(doc[pos])
        THEN /\ Len(records') = Len(records) + 1
             /\ SubSeq(records', 1, Len(records)) = records
             /\ Last(records').code = doc[pos].a.Code
             /\ error_count' = error_count
        ELSE /\ records' = records
             /\ error_count' = error_count + 1

(***************************************************************************)
(* C2.  In the FSBC parser a Resource close event appends a record if and  *)
(* only if the Resource has a non-empty Code, a non-empty Name and a Price *)
(* descendant; otherwise no record is appended and the error count grows   *)
(* by exactly one.                                                         *)
(***************************************************************************)
C2_RecordIffCodeNamePrice == [][C2_Step]_vars

\* a parse in which one Resource was rejected and a later one accepted
C2_Witness ==
    /\ worker = "fsbc"
    /\ pc = "done"
    /\ error_count = 1
    /\ Len(records) = 1
    /\ \E p \in 1..Len(doc) :
          /\ IsLeaf(doc[p], "Resource")
          /\ doc[p].a.Code # E /\ doc[p].a.Name # E /\ ~HasPriceDescendant(doc[p])
          /\ p < LeafPos("Resource", records[1].code)

(***************************************************************************)
(* C3.  For every ResourceRecord of the FSBC parser, book, part, section   *)
(* and group (code and name) are the Code and Name of the nearest          *)
(* enclosing open Section of type Kniga, Chast, Razdel, Gruppa when the    *)
(* Resource closes, and empty when no Section of that type is open then.   *)
(***************************************************************************)
C3_HierarchyIsNearestEnclosing ==
    worker = "fsbc" =>
        \A n \in 1..Len(records) :
            LET r == records[n]
                p == LeafPos("Resource", r.code)
            IN  /\ <<r.book_code, r.book_name>> = NearestEnclosing(p, "Kniga")
                /\ <<r.part_code, r.part_name>> = NearestEnclosing(p, "Chast")
                /\ <<r.section_code, r.section_name>> = NearestEnclosing(p, "Razdel")
                /\ <<r.group_code, r.group_name>> = NearestEnclosing(p, "Gruppa")

\* a record of a Resource that follows a closed Section of a recognized
\* type, has nothing of that type, and has a value of another type
C3_Witness ==
    /\ worker = "fsbc"
    /\ \E n \in 1..Len(records) :
          LET r == records[n]
              p == LeafPos("Resource", r.code)
          IN  /\ \E a \in 1..(p - 1) :
                    /\ IsSectionStart(doc[a])
                    /\ ~OpenAt(a, p)
                    /\ doc[a].a.Type = T("Chast")
              /\ r.part_code = E
              /\ r.book_code # E

(***************************************************************************)
(* C4.  For every GesnWorkRecord of the GESN parser, each of the levels    *)
(* sbornik, otdel, razdel, podrazdel, table (code and name) is the Code    *)
(* and Name of the nearest enclosing open Section whose type label maps to *)
(* that level when the Work closes, and empty when there is none.          *)
(***************************************************************************)
C4_GesnHierarchyIsNearestEnclosing ==
    worker = "gesn" =>
        \A n \in 1..Len(records) :
            LET r == records[n]
                p == LeafPos("Work", r.code)
            IN  /\ <<r.sbornik_code, r.sbornik_name>> = NearestEnclosing(p, "Sbornik")
                /\ <<r.otdel_code, r.otdel_name>> = NearestEnclosing(p, "Otdel")
                /\ <<r.razdel_code, r.razdel_name>> = NearestEnclosing(p, "Razdel")
                /\ <<r.podrazdel_code, r.podrazdel_name>> = NearestEnclosing(p, "Podrazdel")
                /\ <<r.table_code, r.table_name>> = NearestEnclosing(p, "Tablica")

\* a record of a Work inside two nested Sections of one type (it carries the
\* inner one), and a record of a Work with no Section of a type around it
C4_Witness ==
    /\ worker = "gesn"
    /\ \E n \in 1..Len(records) :
          LET r == records[n]
              p == LeafPos("Work", r.code)
          IN  /\ \E a, b \in 1..(p - 1) :
                    /\ a < b
                    /\ OpenAt(a, p) /\ OpenAt(b, p)
                    /\ doc[a].a.Type = T("Razdel") /\ doc[b].a.Type = T("Razdel")
                    /\ r.razdel_code = doc[b].a.Code
              /\ r.table_code = E

\* a step in which the GESN parser handles the close event of a Work
WorkCloses ==
    /\ worker = "gesn"
    /\ pc = "loop"
    /\ pos' = pos + 1
    /\ IsLeaf(doc[pos], "Work")

\* a Work close event either yields the record of that Work, or (the
\* extraction failed) no record and one more error; the parse goes on
C5_Step ==
    WorkCloses =>
        /\ \/ /\ Len(records') = Len(records) + 1
              /\ SubSeq(records', 1, Len(records)) = records
              /\ Last(records').code = doc[pos].a.Code
              /\ error_count' = error_count
           \/ /\ records' = records
              /\ error_count' = error_count + 1
        /\ pc' = "loop"
        /\ Count(signals', LAMBDA m : m.sig = "error") = 0

\* the run over a readable, well-formed source never ends with error, and
\* what it delivers accounts for every Work: the failed ones as errors
C5_Final ==
    (worker = "gesn" /\ readable /\ WellFormed) =>
        /\ pc # "failed"
        /\ Count(signals, LAMBDA m : m.sig = "error") = 0
        /\ pc = "done" =>
              /\ Last(signals) = Finished
              /\ Len(Result.records) + Result.errors = Count(doc, LAMBDA t : IsLeaf(t, "Work"))
              /\ Result.errors = error_count

(***************************************************************************)
(* C5.  In the GESN parser a failure raised while one Work is extracted    *)
(* produces no record for that Work, increases the error count by exactly  *)
(* one and never aborts the parse: the run still ends with finished, not   *)
(* with error, and later Works are still processed.  With a single Work    *)
(* that fails, the result is 0 records and 1 error.                        *)
(***************************************************************************)
C5_WorkFailureIsCountedNotFatal == []C5_Final /\ [][C5_Step]_vars

\* a finished parse of a source with one Work, whose extraction failed
C5_Witness ==
    /\ worker = "gesn"
    /\ pc = "done"
    /\ Count(doc, LAMBDA t : IsLeaf(t, "Work")) = 1
    /\ Result.records = <<>>
    /\ Result.errors = 1

(***************************************************************************)
(* C6.  When reading the source fails or the bytes are not well-formed XML *)
(* at any point of a parse (either parser), the run emits exactly one      *)
(* error notification and no finished notification, so nothing of what was *)
(* accumulated before the failure is delivered.                            *)
(***************************************************************************)
C6_FailedParseDeliversNothing ==
    (~readable \/ ~WellFormed) =>
        /\ delivered = <<>>
        /\ ~ui.parse_handled
        /\ Count(signals, LAMBDA m : m.sig = "finished") = 0
        /\ Count(signals, LAMBDA m : m.sig = "error") <= 1
        /\ pc # "done"
        /\ pc = "failed" <=> Count(signals, LAMBDA m : m.sig = "error") = 1
        /\ (pc = "loop" /\ pos > Len(doc)) => ENABLED (XpParseError \/ XgParseError)

\* a parse that failed after it had accumulated metadata and a record
C6_Witness ==
    /\ worker = "gesn"
    /\ pc = "failed"
    /\ records # <<>>
    /\ metadata.base_name # E
    /\ signals = <<Error>>

LeafTag == IF worker = "fsbc" THEN "Resource" ELSE "Work"

\* the lines of the document between the title block and the summary
RecordPart(ls) ==
    LET rules == {j \in 1..Len(ls) : ls[j] = Rule}
        first == CHOOSE j \in rules : \A k \in rules : j <= k
        later == rules \ {first}
    IN  IF rules = {} THEN <<>>
        ELSE IF later = {} THEN SubSeq(ls, first + 2, Len(ls))
        ELSE SubSeq(ls, first + 2, (CHOOSE j \in later : \A k \in later : j <= k) - 2)

RECURSIVE SplitCells(_, _, _)
\* the cells of a table row: the text between two pipes that are not
\* escaped; a pipe is escaped when a backslash stands directly before it
SplitCells(line, cell, esc) ==
    IF line = <<>> THEN <<cell>>
    ELSE IF Head(line) = "|" /\ ~esc
         THEN <<cell>> \o SplitCells(Tail(line), <<>>, FALSE)
         ELSE SplitCells(Tail(line), Append(cell, Head(line)), Head(line) = "\\")

\* the cells between the outer pipes, without the space on either side
Cells(line) ==
    LET parts == SplitCells(line, <<>>, FALSE)
    IN  [j \in 1..(Len(parts) - 2) |-> SubSeq(parts[j + 1], 2, Len(parts[j + 1]) - 1)]

IsRow(line) == line # <<>> /\ Head(line) = "|"
IsDataRow(line) == IsRow(line) /\ line # FsbcTableHeader /\ line # FsbcTableRule
DataRows(ls) == SelectSeq(RecordPart(ls), IsDataRow)

(***************************************************************************)
(* C7.  The record sequence a parse delivers is in source document order:  *)
(* if leaf A closes before leaf B and both yield records, A's record       *)
(* precedes B's; no record is reordered, duplicated or merged; and the     *)
(* FSBC serializer iterates the records in exactly that order.             *)
(***************************************************************************)
C7_RecordsInDocumentOrder ==
    /\ \A m, n \in 1..Len(records) :
          m < n => LeafPos(LeafTag, records[m].code) < LeafPos(LeafTag, records[n].code)
    /\ pc = "done" => Result.records = records
    /\ epc # "idle" =>
          /\ exp.records = Result.records
          /\ Len(DataRows(lines)) = (IF epc = "start" THEN 0 ELSE i)
          /\ \A n \in 1..Len(DataRows(lines)) :
                Cells(DataRows(lines)[n])[1] = exp.records[n].code

\* an export that has written the rows of two records
C7_Witness ==
    /\ epc = "done"
    /\ Len(exp.records) = 2
    /\ Len(DataRows(out_file.content)) = 2
    /\ exp.records[1].code # exp.records[2].code

(***************************************************************************)
(* Reading the Markdown lines independently of the exporter.               *)
(***************************************************************************)
RECURSIVE LeadingHashes(_)
LeadingHashes(line) ==
    IF line # <<>> /\ Head(line) = "#" THEN 1 + LeadingHashes(Tail(line)) ELSE 0

\* the level of a heading line, and 0 for a line that is no heading
HeadingLevel(line) ==
    LET n == LeadingHashes(line)
    IN  IF n > 0 /\ Len(line) > n /\ line[n + 1] = " " THEN n ELSE 0

Headings(ls, lv) == Count(ls, LAMBDA line : HeadingLevel(line) = lv)

\* a table block is a maximal run of consecutive row lines
TableBlocks(ls) ==
    Cardinality({j \in 1..Len(ls) : IsRow(ls[j]) /\ (j = 1 \/ ~IsRow(ls[j - 1]))})

TableHeaders(ls) == Count(ls, LAMBDA line : line = FsbcTableHeader)

\* the grouping key of a record at level lv: 1 category ... 5 group
LevelKey(r, lv) ==
    CASE lv = 1 -> r.category_type
      [] lv = 2 -> r.book_code
      [] lv = 3 -> r.part_code
      [] lv = 4 -> r.section_code
      [] lv = 5 -> r.group_code

\* the first level at which record n differs from the record before it
\* (1 for the first record, 6 when it differs at no level)
FirstDifference(recs, n) ==
    IF n = 1 THEN 1
    ELSE LET D == {lv \in 1..5 : LevelKey(recs[n], lv) # LevelKey(recs[n - 1], lv)}
         IN  IF D = {} THEN 6 ELSE CHOOSE lv \in D : \A x \in D : lv <= x

\* the lines one iteration of the loop adds: a heading at exactly the levels
\* from the first difference down, a table header with the group heading
C8_Step ==
    (epc = "loop" /\ i' = i + 1) =>
        LET new == SubSeq(lines', Len(lines) + 1, Len(lines'))
            d == FirstDifference(exp.records, i + 1)
        IN  /\ \A lv \in 1..5 : Headings(new, lv) = (IF lv >= d THEN 1 ELSE 0)
            /\ TableHeaders(new) = (IF d <= 5 THEN 1 ELSE 0)
            /\ SubSeq(lines', 1, Len(lines)) = lines

(***************************************************************************)
(* C8.  In the FSBC serializer, whenever a record differs from the         *)
(* previous record at some level (category, book, part, section), a fresh  *)
(* heading is written for every deeper level as well, even when the deeper *)
(* codes are those of the previous record; two consecutive records with    *)
(* the same group code and different section codes give two level-5        *)
(* headings and two table headers.                                         *)
(***************************************************************************)
C8_DifferenceResetsDeeperLevels == [][C8_Step]_vars

\* two records with the same group code in different sections, written with
\* two group headings and two table headers
C8_Witness ==
    /\ epc = "loop"
    /\ i = 2
    /\ exp.records[1].group_code = exp.records[2].group_code
    /\ exp.records[1].section_code # exp.records[2].section_code
    /\ exp.records[1].part_code = exp.records[2].part_code
    /\ Headings(RecordPart(lines), 5) = 2
    /\ TableHeaders(RecordPart(lines)) = 2

(***************************************************************************)
(* C9.  The FSBC serializer writes exactly one table row per record, in    *)
(* the order of the records, with the record's code, name (pipes escaped), *)
(* unit, cost and wholesale cost; the number of data rows in the record    *)
(* part of the document is the number of records.                          *)
(***************************************************************************)
C9_OneRowPerRecord ==
    /\ epc \in {"loop", "done", "failed"} =>
          /\ Len(DataRows(lines)) = i
          /\ \A n \in 1..i :
                LET r == exp.records[n]
                IN  Cells(DataRows(lines)[n])
                        = <<r.code, Escape(r.name), r.measure_unit, r.cost, r.opt_cost>>
    /\ epc = "done" => Len(DataRows(out_file.content)) = Len(exp.records)

\* a written document of two records that share one table
C9_Witness ==
    /\ epc = "done"
    /\ Len(exp.records) = 2
    /\ TableHeaders(out_file.content) = 1
    /\ Len(DataRows(out_file.content)) = 2

Scenario ==
    /\ worker = "fsbc"
    /\ readable
    /\ Len(doc) = 17
    /\ \E sh \in FsbcScenario : doc = FsbcDecode(sh)

\* the groups of the scenario that hold a resource with a Price
GroupsWithRecord ==
    Cardinality({a \in 1..Len(doc) :
        /\ IsSectionStart(doc[a])
        /\ doc[a].a.Type = T("Gruppa")
        /\ \E p \in (a + 1)..Len(doc) :
              /\ OpenAt(a, p)
              /\ IsLeaf(doc[p], "Resource")
              /\ HasPriceDescendant(doc[p])})

\* C10 read over the whole document: parsing and exporting the scenario
\* source gives 2 records and 1 error, one heading at each of the levels
\* 1-4, two at level 5 and two table blocks.  This does not hold: the title
\* and the summary are level-1 headings too, the summary has a table, and a
\* group whose only resource lacks its Price gets no heading.
C10_ScenarioWholeDocument ==
    (Scenario /\ epc = "done") =>
        /\ Len(exp.records) = 2
        /\ exp.parse_errors = 1
        /\ \A lv \in 1..4 : Headings(out_file.content, lv) = 1
        /\ Headings(out_file.content, 5) = 2
        /\ TableBlocks(out_file.content) = 2

(***************************************************************************)
(* C10.  Parsing and exporting an FSBC source with one category, one book, *)
(* one part, one section, two groups and three resources of which one      *)
(* lacks its Price element gives 2 records and 1 error; the record part of *)
(* the document (between the title block and the summary) has one heading  *)
(* at each of the levels 1-4, and one level-5 heading and one table block  *)
(* for every group that holds a resource with a Price (two when both       *)
(* groups do); the whole document has two more level-1 headings (title and *)
(* summary) and one more table block (the summary's).                      *)
(***************************************************************************)
C10_ScenarioRecordPart ==
    /\ (Scenario /\ pc = "done") =>
          /\ Len(Result.records) = 2
          /\ Result.errors = 1
    /\ (Scenario /\ epc = "done") =>
          /\ Len(exp.records) = 2
          /\ exp.parse_errors = 1
          /\ \A lv \in 1..4 : Headings(RecordPart(out_file.content), lv) = 1
          /\ Headings(RecordPart(out_file.content), 5) = GroupsWithRecord
          /\ TableBlocks(RecordPart(out_file.content)) = GroupsWithRecord
          /\ GroupsWithRecord \in {1, 2}
          /\ Headings(out_file.content, 1) = 3
          /\ TableBlocks(out_file.content) = GroupsWithRecord + 1

\* the scenario exported, with a record in each of the two groups
C10_Witness ==
    /\ Scenario
    /\ epc = "done"
    /\ GroupsWithRecord = 2
    /\ Headings(RecordPart(out_file.content), 5) = 2
    /\ TableBlocks(RecordPart(out_file.content)) = 2

(***************************************************************************)
(* Reading the summary of the FSBC document.                               *)
(***************************************************************************)
\* the lines after the last rule line: the summary
SummaryPart(ls) ==
    LET rules == {j \in 1..Len(ls) : ls[j] = Rule}
    IN  IF rules = {} THEN <<>>
        ELSE SubSeq(ls, (CHOOSE j \in rules : \A k \in rules : k <= j) + 1, Len(ls))

\* the value of the list item of the summary that carries the label
SummaryValue(ls, label) ==
    LET hits == SelectSeq(SummaryPart(ls),
                          LAMBDA line : Len(line) >= 4 /\ line[1] = "-" /\ line[3] = label)
    IN  IF Len(hits) = 1 THEN SubSeq(hits[1], 5, Len(hits[1])) ELSE <<"?">>

\* the rows of the category table of the summary, without its two header rows
SummaryRows(ls) ==
    LET rows == SelectSeq(SummaryPart(ls), IsRow)
    IN  SubSeq(rows, 3, Len(rows))

RECURSIVE FirstSeen(_, _)
\* the distinct categories of the records, in the order of first appearance
FirstSeen(recs, seen) ==
    IF recs = <<>> THEN <<>>
    ELSE IF Head(recs).category_type \in seen THEN FirstSeen(Tail(recs), seen)
         ELSE <<Head(recs).category_type>>
              \o FirstSeen(Tail(recs), seen \cup {Head(recs).category_type})

(***************************************************************************)
(* C11.  The summary of the FSBC document lists, for each category, the    *)
(* number of records of that category, the categories in the order of      *)
(* their first appearance in the record sequence; it reports the number of *)
(* distinct book codes and of distinct group codes over all records, the   *)
(* candidate count and the skipped count handed over from the parse, and   *)
(* the number of records.                                                  *)
(***************************************************************************)
C11_SummaryCounts ==
    epc = "done" =>
        LET doc_lines == out_file.content
            recs == exp.records
            cats == FirstSeen(recs, {})
        IN  /\ Len(SummaryRows(doc_lines)) = Len(cats)
            /\ \A n \in 1..Len(cats) :
                  Cells(SummaryRows(doc_lines)[n])
                      = <<cats[n],
                          Dec(Count(recs, LAMBDA r : r.category_type = cats[n]))>>
            /\ SummaryValue(doc_lines, "**Knig (razdelov verhnego urovnya):**")
                  = Dec(Cardinality({recs[n].book_code : n \in 1..Len(recs)}))
            /\ SummaryValue(doc_lines, "**Grupp resursov:**")
                  = Dec(Cardinality({recs[n].group_code : n \in 1..Len(recs)}))
            /\ SummaryValue(doc_lines, "**Prochitano resursov v XML:**") = Dec(exp.total_in_xml)
            /\ SummaryValue(doc_lines, "**Propushcheno (oshibki):**") = Dec(exp.parse_errors)
            /\ SummaryValue(doc_lines, "**Sozdano zapisej v dokumente:**") = Dec(Len(recs))

\* a written document of two records of two categories, the second category
\* of the catalog first, with two book codes and one group code
C11_Witness ==
    /\ epc = "done"
    /\ Len(exp.records) = 2
    /\ exp.records[1].category_type = T("Oborudovanie")
    /\ exp.records[2].category_type = T("Materialy")
    /\ exp.records[1].book_code # exp.records[2].book_code
    /\ exp.records[1].group_code = exp.records[2].group_code
    /\ Len(SummaryRows(out_file.content)) = 2

RECURSIVE Unescape(_)
\* the text a cell stands for: a backslash directly before a pipe is dropped
Unescape(text) ==
    IF text = <<>> THEN <<>>
    ELSE IF Len(text) >= 2 /\ text[1] = "\\" /\ text[2] = "|"
         THEN <<"|">> \o Unescape(SubSeq(text, 3, Len(text)))
         ELSE <<Head(text)>> \o Unescape(Tail(text))

\* every pipe of the text has a backslash directly before it
PipesEscaped(text) ==
    \A j \in 1..Len(text) : text[j] = "|" => (j > 1 /\ text[j - 1] = "\\")

(***************************************************************************)
(* C12.  In the FSBC document every pipe character of a record's name is   *)
(* written as backslash-pipe, so the row of that record keeps the five     *)
(* cells of the table, and the name cell stands for the name.              *)
(***************************************************************************)
C12_NamePipesEscaped ==
    (epc \in {"loop", "done", "failed"} /\ i >= 1) =>
        \A n \in 1..i :
            LET row == DataRows(lines)[n]
                name == exp.records[n].name
            IN  /\ Len(Cells(row)) = 5
                /\ PipesEscaped(Cells(row)[2])
                /\ Unescape(Cells(row)[2]) = name
                /\ Count(Cells(row)[2], LAMBDA c : c = "|") = Count(name, LAMBDA c : c = "|")
                /\ Len(Cells(row)[2]) = Len(name) + Count(name, LAMBDA c : c = "|")

\* a written row for a name with two pipes, one of them after a backslash
C12_Witness ==
    /\ epc = "done"
    /\ exp.records[1].name = <<"\\", "|", "|">>
    /\ Cells(DataRows(out_file.content)[1])[2] = <<"\\", "\\", "|", "\\", "|">>

(***************************************************************************)
(* Reading the GESN document.                                              *)
(***************************************************************************)
GesnSummaryHeading == Heading(1, T("Svodnaya informaciya po konvertacii"))

\* the lines before the summary, and the lines of the summary
GesnRecordPart(ls) ==
    LET at == {j \in 1..Len(ls) : ls[j] = GesnSummaryHeading}
    IN  IF at = {} THEN ls ELSE SubSeq(ls, 1, (CHOOSE j \in at : \A k \in at : k <= j) - 1)

GesnSummaryPart(ls) ==
    LET at == {j \in 1..Len(ls) : ls[j] = GesnSummaryHeading}
    IN  IF at = {} THEN <<>> ELSE SubSeq(ls, CHOOSE j \in at : \A k \in at : k <= j, Len(ls))

\* the rows of the resource tables, without the header rows
GesnResourceRows(ls) ==
    SelectSeq(GesnRecordPart(ls),
              LAMBDA line : IsRow(line) /\ line # GesnTableHeader /\ line # GesnTableRule)

\* the resources of all records, in order
AllResources(recs) == Flatten([n \in 1..Len(recs) |-> recs[n].resources])

(***************************************************************************)
(* C13.  In the GESN document all table-cell text has the pipe character   *)
(* escaped: every row of a resource table has its four cells (resource     *)
(* code, name, unit, quantity) and no cell has an unescaped pipe, whatever *)
(* the fields of the record are.  The exporter escapes the name only, so a *)
(* pipe in the code, the unit or the quantity splits the row.              *)
(***************************************************************************)
C13_GesnCellsEscaped ==
    (worker = "gesn" /\ epc = "done") =>
        LET rows == GesnResourceRows(out_file.content)
            res == AllResources(exp.records)
        IN  /\ Len(rows) = Len(res)
            /\ \A n \in 1..Len(rows) :
                  /\ Len(Cells(rows[n])) = 4
                  /\ Unescape(Cells(rows[n])[1]) = res[n].code
                  /\ Unescape(Cells(rows[n])[2]) = res[n].end_name
                  /\ Unescape(Cells(rows[n])[3]) = res[n].measure_unit
                  /\ Unescape(Cells(rows[n])[4]) = res[n].quantity

\* the location lines of the records, in order, without label and line break
LocationTexts(ls) ==
    LET hits == SelectSeq(GesnRecordPart(ls),
                          LAMBDA line : line # <<>> /\ line[1] = "**Raspolozhenie:**")
    IN  [n \in 1..Len(hits) |-> SubSeq(hits[n], 3, Len(hits[n]) - 2)]

\* the hierarchy levels of a record, outermost first
LevelsOf(w) ==
    <<[label |-> "Sbornik", code |-> w.sbornik_code, name |-> w.sbornik_name],
      [label |-> "Otdel", code |-> w.otdel_code, name |-> w.otdel_name],
      [label |-> "Razdel", code |-> w.razdel_code, name |-> w.razdel_name],
      [label |-> "Podrazdel", code |-> w.podrazdel_code, name |-> w.podrazdel_name],
      [label |-> "Tablica", code |-> w.table_code, name |-> w.table_name]>>

\* the levels of a record that have a code
CodedLevels(w) == SelectSeq(LevelsOf(w), LAMBDA lv : lv.code # <<>>)

\* label, code and the name in double quotes
QuotedSegment(lv) == <<lv.label, " ">> \o lv.code \o <<" ", "\"">> \o lv.name \o <<"\"">>

RECURSIVE Chain(_)
\* the segments with " > " between neighbours
Chain(segs) ==
    IF segs = <<>> THEN <<>>
    ELSE IF Len(segs) = 1 THEN segs[1]
         ELSE Chain(SubSeq(segs, 1, Len(segs) - 1)) \o <<" ", ">", " ">> \o segs[Len(segs)]

(***************************************************************************)
(* C14 as stated.  For every record the breadcrumb has one segment for     *)
(* each non-empty hierarchy level, in the order sbornik, otdel, razdel,    *)
(* podrazdel, table, each segment being the level label, the code and the  *)
(* name in double quotes; the segments are joined with " > ".  The segment *)
(* of the table level has no name, so this fails for a record in a table.  *)
(***************************************************************************)
C14_EverySegmentNamed ==
    (worker = "gesn" /\ epc = "done") =>
        /\ Len(LocationTexts(out_file.content)) = Len(exp.records)
        /\ \A n \in 1..Len(exp.records) :
              LET levels == CodedLevels(exp.records[n])
              IN  Unescape(LocationTexts(out_file.content)[n])
                      = Chain([k \in 1..Len(levels) |-> QuotedSegment(levels[k])])

(***************************************************************************)
(* C14.  For every record the breadcrumb has one segment for each          *)
(* hierarchy level whose code is not empty, in the order sbornik, otdel,   *)
(* razdel, podrazdel, table; the segment of sbornik, otdel, razdel and     *)
(* podrazdel is the level label, the code and the name in double quotes,   *)
(* the segment of the table is the label and the code; the segments are    *)
(* joined with " > ", a level without a code contributes no segment, and   *)
(* the breadcrumb is written with its pipes escaped.                       *)
(***************************************************************************)
C14_Breadcrumb ==
    (worker = "gesn" /\ epc = "done") =>
        /\ Len(LocationTexts(out_file.content)) = Len(exp.records)
        /\ \A n \in 1..Len(exp.records) :
              LET levels == CodedLevels(exp.records[n])
                  text == LocationTexts(out_file.content)[n]
              IN  /\ PipesEscaped(text)
                  /\ Unescape(text)
                        = Chain([k \in 1..Len(levels) |->
                                    IF levels[k].label = "Tablica"
                                    THEN <<levels[k].label, " ">> \o levels[k].code
                                    ELSE QuotedSegment(levels[k])])

\* a written record with a code at sbornik, razdel and table and none at otdel
\* and podrazdel: three segments, the name of razdel with its pipe escaped
C14_Witness ==
    /\ worker = "gesn"
    /\ epc = "done"
    /\ Len(exp.records) = 1
    /\ Len(CodedLevels(exp.records[1])) = 3
    /\ exp.records[1].otdel_code = <<>>
    /\ exp.records[1].razdel_name = <<"a", "|", "b">>
    /\ exp.records[1].table_code # <<>>
    /\ Count(LocationTexts(out_file.content)[1], LAMBDA c : c = ">") = 2
    /\ Count(LocationTexts(out_file.content)[1], LAMBDA c : c = "\\") = 1

\* the value in the row of the summary table that carries the label
GesnSummaryValue(ls, label) ==
    LET hits == SelectSeq(GesnSummaryPart(ls),
                          LAMBDA line : IsRow(line) /\ Len(Cells(line)) = 2
                                        /\ Cells(line)[1] = T(label))
    IN  IF Len(hits) = 1 THEN Cells(hits[1])[2] ELSE <<"?">>

RECURSIVE SumOver(_)
\* the sum of a sequence of numbers
SumOver(ns) == IF ns = <<>> THEN 0 ELSE Head(ns) + SumOver(Tail(ns))

(***************************************************************************)
(* C15.  The summary table of the GESN document reports an aggregate       *)
(* resource count equal to the sum of the lengths of the resource lists of *)
(* all the records given to the export, an aggregate content-item count    *)
(* equal to the sum of the lengths of their content-item lists, the number *)
(* of records as records created, and the candidate and error counts as    *)
(* they were passed in.                                                    *)
(***************************************************************************)
C15_GesnSummary ==
    (worker = "gesn" /\ epc = "done") =>
        LET ls == out_file.content
            recs == exp.records
        IN  /\ Len(SelectSeq(GesnSummaryPart(ls), IsRow)) = 7
            /\ GesnSummaryValue(ls, "Obshchee kolichestvo resursov")
                  = DecComma(SumOver([n \in 1..Len(recs) |-> Len(recs[n].resources)]))
            /\ GesnSummaryValue(ls, "Obshchee kolichestvo punktov sostava rabot")
                  = DecComma(SumOver([n \in 1..Len(recs) |-> Len(recs[n].content_items)]))
            /\ GesnSummaryValue(ls, "Uspeshno sozdano zapisej v Markdown")
                  = DecComma(Len(recs))
            /\ GesnSummaryValue(ls, "Vsego obrabotano elementov Work v XML")
                  = DecComma(exp.total_parsed)
            /\ GesnSummaryValue(ls, "Propushcheno s oshibkami") = DecComma(exp.parse_errors)

\* a written document of two records, the first with two content items and no
\* resource, the second with one content item and two resources
C15_Witness ==
    /\ worker = "gesn"
    /\ epc = "done"
    /\ Len(exp.records) = 2
    /\ Len(exp.records[1].content_items) = 2
    /\ Len(exp.records[1].resources) = 0
    /\ Len(exp.records[2].content_items) = 1
    /\ Len(exp.records[2].resources) = 2
    /\ GesnSummaryValue(out_file.content, "Obshchee kolichestvo resursov") = T("2")
    /\ GesnSummaryValue(out_file.content, "Obshchee kolichestvo punktov sostava rabot")
          = T("3")

\* t is s without its leading and trailing spaces
IsTrimOf(t, s) ==
    /\ t = <<>> \/ (Head(t) # " " /\ Last(t) # " ")
    /\ \E a \in 0..Len(s) :
          /\ a + Len(t) <= Len(s)
          /\ SubSeq(s, a + 1, a + Len(t)) = t
          /\ \A j \in (1..a) \cup ((a + Len(t) + 1)..Len(s)) : s[j] = " "

(***************************************************************************)
(* C16.  For every record of the GESN parser, full_name is                 *)
(* name_group_begin, a space and end_name without the leading and trailing *)
(* spaces of the whole when end_name is not empty, and is name_group_begin *)
(* unchanged when end_name is empty.                                       *)
(***************************************************************************)
C16_FullName ==
    \A n \in 1..Len(records) :
        LET r == records[n]
        IN  IF r.end_name # <<>>
            THEN IsTrimOf(r.full_name, r.name_group_begin \o <<" ">> \o r.end_name)
            ELSE r.full_name = r.name_group_begin

\* a finished parse with the record of the Work inside the group, whose begin
\* has a leading and whose end has a trailing space, and the record of the
\* Work after the group, whose begin is empty
C16_Witness ==
    /\ pc = "done"
    /\ Len(records) = 2
    /\ records[1].name_group_begin = <<" ", "A">>
    /\ records[1].end_name = <<"A", " ">>
    /\ records[1].full_name = <<"A", " ", "A">>
    /\ records[2].name_group_begin = <<>>
    /\ records[2].full_name = <<"A">>

IsGroupStart(t) == t.k = "start" /\ t.tag = "NameGroup"
IsGroupEnd(t) == t.k = "end" /\ t.tag = "NameGroup"

\* the NameGroup opened at a has not been closed before p
GroupOpenAt(a, p) ==
    /\ a < p
    /\ IsGroupStart(doc[a])
    /\ \A b \in (a + 1)..(p - 1) :
          Count(SubSeq(doc, a + 1, b), IsGroupEnd)
              <= Count(SubSeq(doc, a + 1, b), IsGroupStart)

\* the BeginName of the innermost NameGroup that encloses place p, and ""
\* when p is outside every NameGroup
EnclosingBeginName(p) ==
    LET S == {a \in 1..(p - 1) : GroupOpenAt(a, p)}
    IN  IF S = {} THEN <<>>
        ELSE Get(doc[CHOOSE x \in S : \A y \in S : y <= x].a, "BeginName")

(***************************************************************************)
(* C17.  In the GESN parser every Work that closes between the open event  *)
(* of a NameGroup and the close event of that same NameGroup gets the      *)
(* BeginName of that NameGroup (of the innermost one, when several are     *)
(* open) as its name_group_begin, and a Work that closes outside every     *)
(* NameGroup gets the empty string.  The parser keeps one value that every *)
(* NameGroup close resets, so a Work that follows the close of an inner    *)
(* NameGroup inside an outer one gets the empty string.                    *)
(***************************************************************************)
C17_NameGroupBegin ==
    worker = "gesn" =>
        \A n \in 1..Len(records) :
            records[n].name_group_begin
                = EnclosingBeginName(LeafPos("Work", records[n].code))

\* the progress values among the notifications, in order
ProgressValues(sigs) ==
    LET ps == SelectSeq(sigs, LAMBDA x : x.sig = "progress")
    IN  [n \in 1..Len(ps) |-> ps[n].value]

(***************************************************************************)
(* C18.  Every progress value emitted by a worker (FSBC parser, GESN       *)
(* parser, FSBC exporter, GESN exporter) is a percentage in the range 0 to *)
(* 100, also when the number of leaf close events differs from the count   *)
(* made before the parse.  The parsers divide the number of close events   *)
(* by that count, so the value exceeds 100 when the count is the smaller.  *)
(***************************************************************************)
C18_ProgressInRange ==
    /\ \A n \in 1..Len(ProgressValues(signals)) : ProgressValues(signals)[n] \in 0..100
    /\ \A n \in 1..Len(ProgressValues(exp_signals)) :
          ProgressValues(exp_signals)[n] \in 0..100

\* the notifications of a run that has completed: the finished notification
\* is the last one, and the one before it is the progress value 100
EndsAt100(sigs) ==
    /\ Len(sigs) >= 2
    /\ Last(sigs) = Finished
    /\ sigs[Len(sigs) - 1] = Progress(100)

\* nothing is emitted after the finished notification
FinishedIsLast(sigs) == \A j \in 1..Len(sigs) : sigs[j] = Finished => j = Len(sigs)

(***************************************************************************)
(* C19.  On every run that completes successfully, of a parser or of an    *)
(* exporter, the last progress value emitted is 100 and it is emitted      *)
(* before the finished notification; no progress value is emitted after    *)
(* finished.                                                               *)
(***************************************************************************)
C19_FinalProgress ==
    /\ pc = "done" => EndsAt100(signals)
    /\ epc = "done" => EndsAt100(exp_signals)
    /\ FinishedIsLast(signals)
    /\ FinishedIsLast(exp_signals)
    /\ (\E j \in 1..Len(signals) : signals[j] = Finished) => pc = "done"
    /\ (\E j \in 1..Len(exp_signals) : exp_signals[j] = Finished) => epc = "done"

\* a completed FSBC parse that emitted a progress value at its 500th Resource
\* and then 100 and finished
C19_Witness ==
    /\ worker = "fsbc"
    /\ pc = "done"
    /\ parsed_count = ProgressEvery
    /\ Len(signals) = 3
    /\ signals[1].sig = "progress"
    /\ signals[2] = Progress(100)
    /\ signals[3] = Finished

\* the ways the runs so far have ended, in order
RunEnds == SelectSeq(signals, LAMBDA x : x.sig \in {"finished", "error"})

(***************************************************************************)
(* C20.  Running the same parser twice on the same source bytes yields the *)
(* same outcome: both runs fail, or both deliver, and then identical       *)
(* metadata, identical record sequences and identical candidate and error  *)
(* counts; the first run leaves nothing behind that changes the second.    *)
(* A failure of the extraction of a Work in the GESN parser is not a       *)
(* function of the bytes here, so the runs compared for that parser are    *)
(* those in which no extraction failed.                                    *)
(***************************************************************************)
C20_Repeatable ==
    (Len(RunEnds) = 2) =>
        /\ RunEnds[1] = RunEnds[2]
        /\ Len(delivered) \in {0, 2}
        /\ Len(delivered) = 2 =>
              \/ worker = "gesn" /\ (delivered[1].errors # 0 \/ delivered[2].errors # 0)
              \/ /\ delivered[1].metadata = delivered[2].metadata
                 /\ delivered[1].records = delivered[2].records
                 /\ delivered[1].total = delivered[2].total
                 /\ delivered[1].errors = delivered[2].errors

\* two completed FSBC runs on a document whose category opens after its
\* Resource: the category is still set when the second run starts, and the
\* record of the second run has none, as that of the first
C20_Witness ==
    /\ worker = "fsbc"
    /\ pc = "done"
    /\ Len(delivered) = 2
    /\ Len(delivered[2].records) = 1
    /\ delivered[2].records[1].category_type = <<>>
    /\ current_category_type # <<>>
    /\ delivered[1] = delivered[2]

\* the instance A and the instance B of a pair
InstanceA == IF parked.active = "A" THEN Context ELSE parked.other[1]
InstanceB == IF parked.active = "B" THEN Context ELSE parked.other[1]

\* what the FSBC exporter writes for at most one record when it runs alone
ExportedAlone(e) ==
    FsbcTitleLines(e.metadata)
    \o (IF e.records = <<>> THEN <<>>
        ELSE SubSeq(EmitRecord([cur |-> NoTrackers, lines |-> <<>>], e.records[1]).lines,
                    1, Len(EmitRecord([cur |-> NoTrackers, lines |-> <<>>],
                                      e.records[1]).lines)))
    \o FsbcSummaryLines(e)

(***************************************************************************)
(* C21.  Two parse or export calls that run at the same time on different  *)
(* worker instances share no mutable state: under every interleaving of    *)
(* their steps each call delivers what it delivers when run alone.  The    *)
(* instance A runs on the file of the run that was made alone before; it   *)
(* ends as that run ended and delivers what that run delivered (for the    *)
(* GESN parser, when no extraction failed in either of the two runs), and  *)
(* the exporter that runs along writes the document of its records.        *)
(***************************************************************************)
C21_NoInterference ==
    parked.forked =>
        /\ InstanceA.pc \in {"done", "failed"} =>
              LET a == InstanceA
                  alone == parked.solo[1]
              IN  /\ a.doc = alone.doc
                  /\ a.pc = alone.pc
                  /\ a.signals = alone.signals
                  /\ \/ a.worker = "gesn" /\ (a.error_count # 0 \/ alone.error_count # 0)
                     \/ a.delivered = alone.delivered
        /\ epc = "done" => out_file.content = ExportedAlone(exp)

\* A has ended and delivered its record below a Kniga while B is in the
\* middle of its run with its Chast open, and the exporter is in its loop
C21_Witness ==
    /\ parked.forked
    /\ InstanceA.pc = "done"
    /\ InstanceA.worker = "fsbc"
    /\ InstanceA.delivered[1].records # <<>>
    /\ InstanceA.delivered[1].records[1].book_code # <<>>
    /\ InstanceB.pc = "loop"
    /\ InstanceB.worker = "fsbc"
    /\ InstanceB.hierarchy_stack # <<>>
    /\ InstanceB.hierarchy_stack[1][1] = T("Chast")
    /\ epc = "loop"

\* the document that a GESN export without a failure writes
GesnWholeDocument(e) ==
    GesnTitleLines(e)
    \o Flatten([n \in 1..Len(e.records) |-> GesnBlock(e.records[n])])
    \o GesnSummaryLines(e, [total_resources |-> Len(AllResources(e.records)),
                            total_content_items |->
                                SumOver([n \in 1..Len(e.records) |->
                                            Len(e.records[n].content_items)])])

\* the headings of the blocks of records in the lines
BlockHeadings(ls) ==
    SelectSeq(ls, LAMBDA line : Len(line) >= 4 /\ SubSeq(line, 1, 4) = <<"#", "#", " ", "GESN">>)

(***************************************************************************)
(* C22.  The GESN exporter writes to the destination while it iterates the *)
(* records, so a failure in the middle of the iteration ends with an error *)
(* notification, without finished, and leaves at the destination a         *)
(* truncated document: the header, the blocks of the records of the        *)
(* iterations that were completed, what was written of the block of the    *)
(* record that failed, and no summary.                                     *)
(***************************************************************************)
C22_TruncatedDocument ==
    (worker = "gesn" /\ epc = "failed" /\ out_file.exists) =>
        LET ls == out_file.content
            whole == GesnWholeDocument(exp)
        IN  /\ Last(exp_signals) = Error
            /\ \A n \in 1..Len(exp_signals) : exp_signals[n] # Finished
            /\ i < Len(exp.records)
            /\ Len(ls) < Len(whole)
            /\ ls = SubSeq(whole, 1, Len(ls))
            /\ SubSeq(ls, 1, Len(GesnTitleLines(exp))) = GesnTitleLines(exp)
            /\ Len(BlockHeadings(ls)) \in {i, i + 1}
            /\ Count(ls, LAMBDA line : line = Rule) >= 1 + i
            /\ \A n \in 1..i : BlockHeadings(ls)[n] = GesnBlock(exp.records[n])[1]
            /\ \A n \in 1..Len(ls) : ls[n] # GesnSummaryHeading

\* the iteration of the second of two records failed after its heading was
\* written: the header, the whole first block and a part of the second
C22_Witness ==
    /\ worker = "gesn"
    /\ epc = "failed"
    /\ out_file.exists
    /\ Len(exp.records) = 2
    /\ i = 1
    /\ Len(BlockHeadings(out_file.content)) = 2
    /\ Len(out_file.content) > Len(GesnTitleLines(exp)) + Len(GesnBlock(exp.records[1])) + 1

(***************************************************************************)
(* C23.  During any parse, at every point of the event stream the context  *)
(* stack holds at most one entry per type label.  The parsers push every   *)
(* Section that opens and test nothing, so a Section that is nested in a   *)
(* Section of the same type label gives two entries of that label.         *)
(***************************************************************************)
C23_OneEntryPerTypeLabel ==
    \A a \in 1..Len(hierarchy_stack), b \in 1..Len(hierarchy_stack) :
        hierarchy_stack[a][1] = hierarchy_stack[b][1] => a = b

\* the Resource leaf at position p of the document is one the FSBC parser rejects
RejectedAt(p) ==
    /\ IsLeaf(doc[p], "Resource")
    /\ (doc[p].a.Code = E \/ doc[p].a.Name = E \/ ~HasPriceDescendant(doc[p]))

\* the Resource leaf at position p of the document is one the FSBC parser accepts
AcceptedAt(p) == IsLeaf(doc[p], "Resource") /\ ~RejectedAt(p)

\* what the rejection of a Resource changes and what it leaves alone
C24_Step ==
    (ResourceCloses /\ RejectedAt(pos)) =>
        /\ parsed_count' = parsed_count + 1
        /\ error_count' = error_count + 1
        /\ records' = records
        /\ hierarchy_stack' = hierarchy_stack
        /\ current_category_type' = current_category_type
        /\ metadata' = metadata
        /\ pc' = "loop"
        /\ \A n \in 1..Len(signals') : signals'[n] # Error

\* the accepted Resources read so far, rejected ones between them or not,
\* are the records, one each and in document order
C24_LaterResourcesYieldRecords ==
    (worker = "fsbc" /\ pc \in {"loop", "done"}) =>
        /\ Len(records) = Cardinality({p \in 1..(pos - 1) : AcceptedAt(p)})
        /\ error_count = Cardinality({p \in 1..(pos - 1) : RejectedAt(p)})
        /\ \A p \in 1..(pos - 1) : AcceptedAt(p) =>
               records[Cardinality({q \in 1..p : AcceptedAt(q)})].code = doc[p].a.Code

(***************************************************************************)
(* C24.  In the FSBC parser the rejection of a Resource (no Code, no Name  *)
(* or no Price descendant) adds one to the leaf counter and one to the     *)
(* error count and leaves the record list, the context stack, the current  *)
(* category and the metadata as they were; the parse goes on with the next *)
(* event, and every accepted Resource, those after a rejected one          *)
(* included, yields its record.                                            *)
(***************************************************************************)
C24_RejectionFrame == [][C24_Step]_vars /\ []C24_LaterResourcesYieldRecords

\* a Resource was rejected between two accepted ones, inside open Sections
\* and under a category, and the one after it got its record with them
C24_Witness ==
    /\ worker = "fsbc"
    /\ pc = "done"
    /\ error_count = 1
    /\ Len(records) = 2
    /\ records[2].category_type # E
    /\ records[2].book_code # E
    /\ records[2].group_code # E
    /\ \E p \in 1..Len(doc) :
          /\ RejectedAt(p)
          /\ LeafPos("Resource", records[1].code) < p
          /\ p < LeafPos("Resource", records[2].code)

\* two records with the same category and the same code at each of the four
\* levels
SameLocation(a, b) == \A lv \in 1..5 : LevelKey(a, lv) = LevelKey(b, lv)

\* the position in ls of its n-th data row
NthRowPos(ls, n) ==
    CHOOSE j \in 1..Len(ls) :
        /\ IsDataRow(ls[j])
        /\ Cardinality({k \in 1..j : IsDataRow(ls[k])}) = n

\* in ls the rows of any two consecutive records among the first n that
\* have one location stand on consecutive lines
RowsAdjacent(ls, n) ==
    \A m \in 1..(n - 1) :
        SameLocation(exp.records[m], exp.records[m + 1]) =>
            /\ Cells(ls[NthRowPos(ls, m)])[1] = exp.records[m].code
            /\ Cells(ls[NthRowPos(ls, m + 1)])[1] = exp.records[m + 1].code
            /\ NthRowPos(ls, m + 1) = NthRowPos(ls, m) + 1

(***************************************************************************)
(* C25.  In the FSBC serializer two consecutive records with the same      *)
(* category type and the same book, part, section and group code have no   *)
(* heading and no table header between their rows: the row of the second   *)
(* is the line directly after the row of the first.                        *)
(***************************************************************************)
C25_SameLocationSharesTable ==
    /\ (worker = "fsbc" /\ epc \in {"loop", "done"}) => RowsAdjacent(lines, i)
    /\ (worker = "fsbc" /\ epc = "done") => RowsAdjacent(out_file.content, Len(exp.records))

\* a written document whose two records have one location, the second row
\* on the line after the first
C25_Witness ==
    /\ worker = "fsbc"
    /\ epc = "done"
    /\ Len(exp.records) = 2
    /\ SameLocation(exp.records[1], exp.records[2])
    /\ exp.records[1].group_code # E
    /\ NthRowPos(out_file.content, 2) = NthRowPos(out_file.content, 1) + 1

\* a step in which either parser handles the close event of a Section
SectionCloses ==
    /\ pc = "loop"
    /\ pos' = pos + 1
    /\ IsSectionEnd(doc[pos])

\* what such a step does to the context stack, and what it leaves alone
C26_Step ==
    SectionCloses =>
        /\ IF hierarchy_stack # <<>>
           THEN /\ Len(hierarchy_stack') = Len(hierarchy_stack) - 1
                /\ hierarchy_stack' = SubSeq(hierarchy_stack, 1, Len(hierarchy_stack) - 1)
           ELSE hierarchy_stack' = <<>>
        /\ error_count' = error_count
        /\ signals' = signals
        /\ pc' = "loop"

(***************************************************************************)
(* C26.  In both parsers a Section close event removes exactly the top     *)
(* entry of the context stack when the stack is not empty; when the stack  *)
(* is empty it leaves the stack empty, raises no error and leaves the      *)
(* error count as it is.  (iterparse reports a close event only for an     *)
(* element whose open event it reported before, so a close event with an   *)
(* empty stack is a case of the code that no input reaches.)               *)
(***************************************************************************)
C26_SectionClosePopsTop == [][C26_Step]_vars

\* the inner of two nested Sections has just closed in the GESN parser and
\* the entry of the outer one is what is left on the stack
C26_Witness ==
    /\ worker = "gesn"
    /\ pc = "loop"
    /\ pos > 3
    /\ IsSectionEnd(doc[pos - 1])
    /\ Len(hierarchy_stack) = 1
    /\ \E a \in 1..(pos - 3) :
          /\ OpenAt(a, pos)
          /\ IsSectionStart(doc[a + 1])
          /\ hierarchy_stack[1] = <<doc[a].a.Type, doc[a].a.Code, doc[a].a.Name>>
          /\ doc[a + 1].a.Code # doc[a].a.Code

IsCategoryStart(t) == t.k = "start" /\ t.tag = "ResourceCategory"
IsCategoryEnd(t) == t.k = "end" /\ t.tag = "ResourceCategory"

\* the Type of the ResourceCategory opened last before position p of the
\* document, closed since or not, and the empty text when there is none
LastCategoryBefore(p) ==
    LET opened == {a \in 1..(p - 1) : IsCategoryStart(doc[a])}
    IN  IF opened = {} THEN E
        ELSE Get(doc[CHOOSE a \in opened : \A b \in opened : b <= a].a, "Type")

\* the current category changes only when a run starts and when a
\* ResourceCategory opens
C27_Step ==
    (worker = "fsbc" /\ current_category_type' # current_category_type) =>
        \/ pc # "loop" /\ pc' = "loop" /\ current_category_type' = E
        \/ pc = "loop" /\ pos' = pos + 1 /\ IsCategoryStart(doc[pos])

\* the current category and the category of every record, read from the
\* document
C27_State ==
    (worker = "fsbc" /\ pc \in {"loop", "done"}) =>
        /\ current_category_type = LastCategoryBefore(pos)
        /\ \A n \in 1..Len(records) :
               records[n].category_type
                   = LastCategoryBefore(LeafPos("Resource", records[n].code))

(***************************************************************************)
(* C27.  In the FSBC parser the current category is one value that only a  *)
(* ResourceCategory open event changes: the category_type of every record  *)
(* is the Type of the ResourceCategory opened last before the Resource in  *)
(* document order (empty when none was opened before it), and neither the  *)
(* close event of a ResourceCategory nor the open or close event of a      *)
(* Section changes it.                                                     *)
(***************************************************************************)
C27_CategoryIsLastOpened == [][C27_Step]_vars /\ []C27_State

\* a record of a Resource that stands after the close of the only
\* ResourceCategory and inside a Section opened after that close
C27_Witness ==
    /\ worker = "fsbc"
    /\ pc = "done"
    /\ \E n \in 1..Len(records) :
          LET p == LeafPos("Resource", records[n].code)
          IN  /\ records[n].category_type # E
              /\ \E c \in 1..(p - 1) :
                    /\ IsCategoryEnd(doc[c])
                    /\ \E a \in (c + 1)..(p - 1) : OpenAt(a, p)

\* the child elements named tag of the child elements named outer of an
\* element with children kids, in document order
PathChildren(kids, outer, tag) ==
    Flatten([j \in 1..Len(kids) |->
                IF kids[j].tag = outer
                THEN SelectSeq(kids[j].kids, LAMBDA e : e.tag = tag)
                ELSE <<>>])

\* the Text values of the Content/Item children of a Work, the empty ones
\* left out
ItemTextsOf(t) ==
    SelectSeq([j \in 1..Len(PathChildren(t.kids, "Content", "Item")) |->
                   Get(PathChildren(t.kids, "Content", "Item")[j].a, "Text")],
              LAMBDA text : text # E)

\* the Resources/Resource children of a Work, as entries
ResourceEntriesOf(t) ==
    [j \in 1..Len(PathChildren(t.kids, "Resources", "Resource")) |->
        LET e == PathChildren(t.kids, "Resources", "Resource")[j]
        IN  [code |-> Get(e.a, "Code"), end_name |-> Get(e.a, "EndName"),
             quantity |-> Get(e.a, "Quantity"), measure_unit |-> Get(e.a, "MeasureUnit")]]

\* a Work with at most one Content child and at most one Resources child
SingleContainers(t) ==
    /\ Len(SelectSeq(t.kids, LAMBDA e : e.tag = "Content")) <= 1
    /\ Len(SelectSeq(t.kids, LAMBDA e : e.tag = "Resources")) <= 1

(***************************************************************************)
(* C28.  For every GesnWorkRecord, content_items is the sequence of the    *)
(* Text values of the Content/Item children of its Work in document order  *)
(* with the empty ones removed, and resources has one entry for every      *)
(* Resources/Resource child in document order, none dropped.  The parser   *)
(* reads the first Content child and the first Resources child of a Work   *)
(* only, so the Items and the Resources of a second such child are         *)
(* dropped.                                                                *)
(***************************************************************************)
C28_ContentAndResources ==
    worker = "gesn" =>
        \A n \in 1..Len(records) :
            LET t == doc[LeafPos("Work", records[n].code)]
            IN  /\ records[n].content_items = ItemTextsOf(t)
                /\ records[n].resources = ResourceEntriesOf(t)

\* the same for the Works that have at most one Content child and at most
\* one Resources child: for these the record has all of them
SingleContainersAgree ==
    worker = "gesn" =>
        \A n \in 1..Len(records) :
            LET t == doc[LeafPos("Work", records[n].code)]
            IN  SingleContainers(t) =>
                    /\ records[n].content_items = ItemTextsOf(t)
                    /\ records[n].resources = ResourceEntriesOf(t)

\* the number of Work elements of the document, each of which closes once
WorkCloseEvents == Count(doc, LAMBDA t : IsLeaf(t, "Work"))

(***************************************************************************)
(* C29.  For every completed GESN parse the number of records delivered    *)
(* plus the error count delivered equals the candidate count delivered     *)
(* with them, and that count is the number of Work close events of the     *)
(* parse, whatever the count of "<Work " taken before the parse was.       *)
(***************************************************************************)
C29_GesnRecordsPlusErrors ==
    (worker = "gesn" /\ pc = "done") =>
        /\ Len(Result.records) + Result.errors = Result.total
        /\ Result.total = WorkCloseEvents
        /\ Result.total = parsed_count

\* a completed GESN parse with a record and an error, on a document for
\* which the count taken before the parse is not the number of Works
C29_Witness ==
    /\ worker = "gesn"
    /\ pc = "done"
    /\ Len(Result.records) = 1
    /\ Result.errors = 1
    /\ total_resources # WorkCloseEvents

\* the places of the Sections that are open at place p of the document
OpenSections(p) == {a \in 1..(p - 1) : OpenAt(a, p)}

\* the Section at place a is the k-th of those open at place p
IsKthOpen(a, k, p) ==
    /\ a \in OpenSections(p)
    /\ Cardinality({b \in OpenSections(p) : b <= a}) = k

\* the context stack is the open Sections, outermost first
StackIsOpenSections ==
    /\ Len(hierarchy_stack) = Cardinality(OpenSections(pos))
    /\ \A k \in 1..Len(hierarchy_stack) :
          \E a \in OpenSections(pos) :
              /\ IsKthOpen(a, k, pos)
              /\ hierarchy_stack[k] = <<doc[a].a.Type, doc[a].a.Code, doc[a].a.Name>>

\* the hierarchy fields of the record of the leaf at place p are those of
\* its nearest enclosing Sections of the recognized type labels
FieldsFromRecognized(r, p) ==
    IF worker = "fsbc"
    THEN /\ <<r.book_code, r.book_name>> = NearestEnclosing(p, "Kniga")
         /\ <<r.part_code, r.part_name>> = NearestEnclosing(p, "Chast")
         /\ <<r.section_code, r.section_name>> = NearestEnclosing(p, "Razdel")
         /\ <<r.group_code, r.group_name>> = NearestEnclosing(p, "Gruppa")
    ELSE /\ <<r.sbornik_code, r.sbornik_name>> = NearestEnclosing(p, "Sbornik")
         /\ <<r.otdel_code, r.otdel_name>> = NearestEnclosing(p, "Otdel")
         /\ <<r.razdel_code, r.razdel_name>> = NearestEnclosing(p, "Razdel")
         /\ <<r.podrazdel_code, r.podrazdel_name>> = NearestEnclosing(p, "Podrazdel")
         /\ <<r.table_code, r.table_name>> = NearestEnclosing(p, "Tablica")

(***************************************************************************)
(* C30.  In both parsers, at every point of a properly nested event stream *)
(* the context stack has one entry for every Section that is open, of      *)
(* whatever type label, and it is empty when the stream is exhausted; a    *)
(* Section of an unrecognized type label is pushed and popped as any other *)
(* and leaves the hierarchy fields of a leaf those of its nearest          *)
(* enclosing Sections of the recognized type labels.                       *)
(***************************************************************************)
C30_StackDepthIsOpenSections ==
    /\ pc = "loop" => StackIsOpenSections
    /\ (pc = "done" /\ WellFormed) => hierarchy_stack = <<>>
    /\ pc \in {"loop", "done"} =>
          \A n \in 1..Len(records) :
              FieldsFromRecognized(records[n], LeafPos(LeafTag, records[n].code))

\* a leaf inside a Section of an unrecognized type label that is inside a
\* Section of a recognized one has just been read: two entries on the
\* stack, the unrecognized one on top, and the record has the outer code
C30_Witness ==
    /\ pc = "loop"
    /\ Len(hierarchy_stack) = 2
    /\ hierarchy_stack[2][1] = T("Prochee")
    /\ hierarchy_stack[1][1] \in {T("Kniga"), T("Tablica")}
    /\ Len(records) = 1
    /\ IsLeaf(doc[pos - 1], LeafTag)
    /\ hierarchy_stack[1][2] = (IF worker = "fsbc" THEN records[1].book_code
                                ELSE records[1].table_code)

IsTerminal(x) == x.sig \in {"finished", "error"}

\* the notifications of a run that has ended: one terminal notification,
\* and it is the last one
OneTerminalAtEnd(sigs) ==
    /\ sigs # <<>>
    /\ IsTerminal(Last(sigs))
    /\ \A j \in 1..(Len(sigs) - 1) : ~IsTerminal(sigs[j])

\* the notifications of a run that has not ended
NoTerminalYet(sigs) == \A j \in 1..Len(sigs) : ~IsTerminal(sigs[j])

(***************************************************************************)
(* C31.  Every run of each of the four workers ends with exactly one       *)
(* terminal notification, finished or error, never both and never neither, *)
(* and no progress value is emitted after it; a run emits no terminal      *)
(* notification before it ends, finished belongs to the run that           *)
(* completed and error to the run that failed.                             *)
(***************************************************************************)
C31_OneTerminalNotification ==
    /\ IF pc \in {"done", "failed"}
       THEN /\ OneTerminalAtEnd(signals)
            /\ (Last(signals) = Finished) = (pc = "done")
       ELSE NoTerminalYet(signals)
    /\ IF epc \in {"done", "failed"}
       THEN /\ OneTerminalAtEnd(exp_signals)
            /\ (Last(exp_signals) = Finished) = (epc = "done")
       ELSE NoTerminalYet(exp_signals)

\* an FSBC export that emitted a progress value and then failed at its
\* destination: the error notification is the only terminal one, and last
C31_Witness ==
    /\ worker = "fsbc"
    /\ epc = "failed"
    /\ Len(exp_signals) = 2
    /\ exp_signals[1].sig = "progress"
    /\ exp_signals[2] = Error

\* a parser, an exporter of the tab is between its start and the end of its
\* run()
ParserRunning == pc \in {"init", "loop"}
ExporterRunning == epc \in {"start", "loop", "gstart", "gloop"}

\* a worker of the tab has been started and its terminal notification has
\* not been handled yet
TabBusy ==
    \/ ParserRunning
    \/ ExporterRunning
    \/ ui.seen < Len(signals)
    \/ ui.eseen < Len(exp_signals)

\* a step that starts a parser, an exporter
ParserStarts == pc' = "init" /\ (pc # "init" \/ ui'.loads # ui.loads)
ExporterStarts == epc' \in {"start", "gstart"} /\ (epc \notin {"start", "gstart"}
                                                      \/ ui'.exports # ui.exports)

\* a step that handles the terminal notification of a worker
HandlesTerminal ==
    \/ ui'.seen = ui.seen + 1 /\ IsTerminal(signals[ui.seen + 1])
    \/ ui'.eseen = ui.eseen + 1 /\ IsTerminal(exp_signals[ui.eseen + 1])

\* starts and re-enabling, step by step
C32_Step ==
    /\ ParserStarts => /\ ui.load_enabled
                       /\ ~TabBusy
                       /\ ~ui'.load_enabled /\ ~ui'.export_enabled
    /\ ExporterStarts => /\ ui.export_enabled
                         /\ ~TabBusy
                         /\ ~ui'.load_enabled /\ ~ui'.export_enabled
    /\ (~ui.load_enabled /\ ui'.load_enabled) => HandlesTerminal
    /\ (~ui.export_enabled /\ ui'.export_enabled) => HandlesTerminal

\* one worker at most, and none while a button is enabled
C32_State ==
    /\ ~(ParserRunning /\ ExporterRunning)
    /\ (ui.load_enabled \/ ui.export_enabled) => ~TabBusy
    /\ TabBusy => (~ui.load_enabled /\ ~ui.export_enabled)

(***************************************************************************)
(* C32.  Within one tab at most one worker, parser or exporter, runs at    *)
(* any time: the start of a worker disables the load button and the export *)
(* button, a button is enabled again only by the step that handles the     *)
(* finished or error notification of that worker, and a worker is started  *)
(* only by a click on an enabled button, when no other is running.         *)
(***************************************************************************)
C32_OneWorkerPerTab == [][C32_Step]_vars /\ []C32_State

\* an exporter runs in a tab whose parser has ended and been handled, with
\* both buttons disabled
C32_Witness ==
    /\ ExporterRunning
    /\ pc = "done"
    /\ ui.seen = Len(signals)
    /\ ui.loads = 2
    /\ ~ui.load_enabled
    /\ ~ui.export_enabled

\* the terminal notifications of the parsers of the tab, oldest first
ParseOutcomes == SelectSeq(signals, IsTerminal)

\* the most recent parse attempt of the tab ended with finished
LastParseFinished == ParseOutcomes # <<>> /\ Last(ParseOutcomes) = Finished

\* a step that handles the error notification of a parser
HandlesParseError ==
    /\ ui'.seen = ui.seen + 1
    /\ signals[ui.seen + 1] = Error

\* what a successful parse stored in the tab
Stored(u) == <<u._metadata, u._records, u._total_in_xml, u._parse_errors>>

C33_State == ui.export_enabled <=> (~TabBusy /\ LastParseFinished)

C33_Step ==
    HandlesParseError => /\ Stored(ui') = Stored(ui)
                         /\ ~ui'.export_enabled
                         /\ ui'.load_enabled

(***************************************************************************)
(* C33.  The export button of a tab is enabled exactly when no worker of   *)
(* the tab is running (a worker counts as running until its finished or    *)
(* error notification has been handled) and the most recent parse attempt  *)
(* ended with finished.  Handling a parse error leaves the export button   *)
(* disabled and leaves the metadata, records and counters stored by an     *)
(* earlier successful parse as they were.                                  *)
(***************************************************************************)
C33_ExportEnabledIffLastParseOk == [][C33_Step]_vars /\ []C33_State

\* a successful parse, then a failed one, both handled: the records of the
\* first are still stored and the export button is disabled
C33_Witness ==
    /\ ~TabBusy
    /\ Len(ParseOutcomes) = 2
    /\ ParseOutcomes[1] = Finished
    /\ ParseOutcomes[2] = Error
    /\ ui._records # <<>>
    /\ ui._metadata # <<>>
    /\ ui.load_enabled
    /\ ~ui.export_enabled

\* a successful parse that produced no record has been handled
ZeroRecordParseStored ==
    /\ ~TabBusy
    /\ LastParseFinished
    /\ ui._metadata # <<>>
    /\ ui._records = <<>>

C34_Step ==
    /\ ExporterStarts => /\ ui._records # <<>>
                         /\ ui._metadata # <<>>
                         /\ exp'.records = ui._records
                         /\ exp'.metadata = ui._metadata[1]
    /\ ui._records = <<>> => UNCHANGED <<export_vars, ui.exports, ui.eseen>>

C34_State == epc # "idle" => exp.records # <<>>

(***************************************************************************)
(* C34.  An export worker is started only when the record list stored in   *)
(* the tab is non-empty and metadata is stored, and it is given that list  *)
(* and that metadata.  After a successful parse that produced no record    *)
(* the export button is enabled, but a click on it starts no worker and    *)
(* changes nothing; no exporter ever runs over an empty record list.       *)
(***************************************************************************)
C34_ExportNeedsRecords == [][C34_Step]_vars /\ []C34_State

\* the export button is enabled over an empty stored record list, and no
\* exporter has been started
C34_Witness ==
    /\ ZeroRecordParseStored
    /\ ui.export_enabled
    /\ ui.exports = 0
    /\ epc = "idle"

\* the table header row that opens the table of the row at position k of
\* ls: a header row before k with no heading between it and k
HeaderOfRow(ls, k) ==
    {j \in 1..(k - 1) : /\ ls[j] = FsbcTableHeader
                         /\ \A m \in (j + 1)..(k - 1) : HeadingLevel(ls[m]) = 0}

\* the lines the step has appended to the document
AppendedLines == SubSeq(lines', Len(lines) + 1, Len(lines'))

\* the levels of the headings among ls, in the order of the lines
HeadingLevels(ls) ==
    LET hs == SelectSeq(ls, LAMBDA line : HeadingLevel(line) > 0)
    IN  [n \in 1..Len(hs) |-> HeadingLevel(hs[n])]

C35_State ==
    LET part == RecordPart(lines)
    IN  /\ \A k \in 1..Len(part) : IsDataRow(part[k]) => HeaderOfRow(part, k) # {}
        /\ TableHeaders(part) = Headings(part, 5)

C35_Step ==
    (epc = "loop" /\ i = 0 /\ i' = 1) => HeadingLevels(AppendedLines) = <<1, 2, 3, 4, 5>>

(***************************************************************************)
(* C35.  In the record part of the FSBC document every data row is         *)
(* preceded, with no heading in between, by the header row of its table;   *)
(* the number of table header rows equals the number of level-5 headings;  *)
(* and the first record always writes one heading at each of the five      *)
(* levels, whatever its codes are.                                         *)
(***************************************************************************)
C35_RowsUnderTheirTableHeader == [][C35_Step]_vars /\ []C35_State

\* a finished document of two records: the first has an empty code at
\* every level, the second opens a new part with the section and group codes
\* of the first, and so a new table
C35_Witness ==
    /\ epc = "done"
    /\ Len(exp.records) = 2
    /\ \A lv \in 2..5 : LevelKey(exp.records[1], lv) = E
    /\ exp.records[2].part_code # E
    /\ \A lv \in {1, 2, 4, 5} : LevelKey(exp.records[2], lv) = LevelKey(exp.records[1], lv)
    /\ Len(DataRows(out_file.content)) = 2
    /\ TableHeaders(RecordPart(out_file.content)) = 2
    /\ Headings(RecordPart(out_file.content), 1) = 1

RECURSIVE EmitAll(_, _)
\* the loop of the exporter over recs, from the state st
EmitAll(st, recs) ==
    IF recs = <<>> THEN st ELSE EmitAll(EmitRecord(st, Head(recs)), Tail(recs))

\* the complete document of an export: title, record blocks, summary
WholeDocument(e) ==
    EmitAll([cur |-> NoTrackers, lines |-> FsbcTitleLines(e.metadata)], e.records).lines
        \o FsbcSummaryLines(e)

\* the exporter is still assembling: the summary has not been appended
Assembling == epc = "start" \/ (epc = "loop" /\ lines' # WholeDocument(exp))

C36_Step ==
    /\ out_file' # out_file => /\ epc = "loop"
                               /\ i = Len(exp.records)
                               /\ lines' = WholeDocument(exp)
    /\ (Assembling /\ epc' = "failed") =>
           /\ out_file' = out_file
           /\ exp_signals' = Append(exp_signals, Error)

C36_State ==
    /\ epc \in {"start", "loop"} => out_file = NoFile
    /\ epc = "done" => /\ Last(exp_signals) = Finished
                       /\ out_file = [exists |-> TRUE, content |-> WholeDocument(exp)]
    /\ (epc = "failed" /\ lines # WholeDocument(exp)) =>
           /\ out_file = NoFile
           /\ Last(exp_signals) = Error

(***************************************************************************)
(* C36.  The FSBC serializer opens the destination only after the whole    *)
(* document (title, all record blocks, summary) has been assembled in      *)
(* memory: a failure while assembling ends with an error notification and  *)
(* leaves the destination untouched, and a finished notification implies   *)
(* that the destination holds the complete document.                       *)
(***************************************************************************)
C36_DestinationOpenedAfterAssembly == [][C36_Step]_vars /\ []C36_State

\* an export of two records that failed after the row of the first: error,
\* and no destination
C36_Witness ==
    /\ epc = "failed"
    /\ Len(exp.records) = 2
    /\ i = 1
    /\ Len(DataRows(lines)) = 1
    /\ exp.writable
    /\ out_file = NoFile
    /\ exp_signals = <<Progress(0), Error>>

\* the run of the parser of parsers.py, parked when the parser of main.py
\* was started on the same file
FirstRun == parked.solo[1]

\* both parsers have delivered
BothDelivered ==
    /\ worker = "main"
    /\ pc = "done"
    /\ parked.forked
    /\ FirstRun.pc = "done"

(***************************************************************************)
(* C37.  The two FSBC parsers of the repository, XmlParserWorker of        *)
(* src/main.py and XmlParserWorker of src/app/workers/parsers.py, deliver  *)
(* the same metadata and the same record sequence for every input.         *)
(* The parser of main.py rejects no Resource (main.py:107-127), the parser *)
(* of parsers.py rejects a Resource without Code, Name or Price            *)
(* (parsers.py:67-70), so this does not hold.                              *)
(***************************************************************************)
C37_SameMetadataAndRecords ==
    BothDelivered =>
        /\ delivered[1].metadata = FirstRun.delivered[1].metadata
        /\ delivered[1].records = FirstRun.delivered[1].records

\* what the two parsers do agree on: the outcome of the run, the metadata,
\* and the records of the Resources that parsers.py accepts, which are the
\* records of main.py without those of the rejected Resources
C37_AgreeOnAccepted ==
    /\ (worker = "main" /\ pc \in {"done", "failed"}) => pc = FirstRun.pc
    /\ BothDelivered =>
          LET mine == delivered[1]
              theirs == FirstRun.delivered[1]
          IN  /\ mine.metadata = theirs.metadata
              /\ Len(mine.records) = Len(theirs.records) + theirs.errors
              /\ theirs.records =
                    SelectSeq(mine.records,
                              LAMBDA r : \E k \in 1..Len(theirs.records) :
                                            theirs.records[k] = r)
              /\ theirs.errors = 0 => mine.records = theirs.records

\* both parsers have delivered on a document with a Resource that has no
\* Price: main.py has a record more, with an empty cost
C37_Diverged ==
    /\ BothDelivered
    /\ FirstRun.delivered[1].errors = 1
    /\ Len(FirstRun.delivered[1].records) = 1
    /\ Len(delivered[1].records) = 2
    /\ \E k \in 1..2 : delivered[1].records[k].code # E /\ delivered[1].records[k].cost = E

====
